---- MODULE Spec2Model ----
(***************************************************************************)
(* A model of the rendering core of SORT: the wide BVH (Fbvh, compiled as  *)
(* Qbvh or Obvh, scalar / SSE / AVX) with its three traversals, and the    *)
(* sampling routines of the microfacet and Disney BxDFs.                   *)
(*                                                                         *)
(* Geometry is modelled along the ray.  A primitive is seen by the ray as  *)
(* a point at signed distance pos from the ray origin (pos < 0: behind     *)
(* the origin), which the ray either really hits (solid) or only grazes    *)
(* the bounding box of.  A bounding box is the interval [lo, hi] of the    *)
(* primitives it encloses.                                                 *)
(***************************************************************************)
EXTENDS Integers, Sequences, FiniteSets, TLC

VARIABLES
    impl,           \* which build of fast_bvh.hpp: "scalar", "sse" or "avx"
    pri,            \* m_bvhpri after Build, as seen by the ray: Seq of [pos, solid, mat]
    m_root,         \* the tree: nested Fbvh_Node records
    m_depth,        \* Fbvh::m_depth
    matID,          \* material requested by the multi-hit query
    fn,             \* the query function under study
    pc,             \* "idle", "loop", "done", "crashed"
    bvh_stack,      \* the traversal stack of fn, entries 1..si
    bvh_stack_cap,  \* per function: size of its static thread_local array, 0 = nullptr
    intersect,      \* Intersection record of the nearest-hit query
    bag,            \* BSSRDFIntersections of the multi-hit query
    ret,            \* the value returned by the query
    bx,             \* state of the BxDF sampling call
    thread,         \* per render thread: the query it runs, [fn, pc, si, intersect, bag, ret]
    tls,            \* the static thread_local arrays, by <<owning thread, function>>
    stats,          \* the stats system: per-thread containers and the global summary
    build           \* the call of splitNode in progress during Build

vars == <<impl, pri, m_root, m_depth, matID, fn, pc, bvh_stack, bvh_stack_cap,
          intersect, bag, ret, bx, thread, tls, stats, build>>

bvhVars == <<impl, pri, m_root, m_depth, matID, fn, pc, bvh_stack, bvh_stack_cap,
             intersect, bag, ret, thread, tls, stats, build>>

(***************************************************************************)
(* Bounds of the model.                                                    *)
(***************************************************************************)
\* primitives in the scenes of the nearest-hit and any-hit specifications
NumPrims == 4
\* primitives in the scenes of the multi-hit specification
NumSSSPrims == 3
\* primitives in the scenes of the stack specification
NumStackPrims == 5
\* largest hit distance along the ray
MaxT == 2
\* Fbvh::m_maxPriInLeaf and Fbvh::m_maxNodeDepth, scaled to the scenes above
m_maxPriInLeaf == 1
m_maxNodeDepth == 3
\* capacity of a BSSRDFIntersections bag, scaled to the scenes above
TOTAL_SSS_INTERSECTION_CNT == 2
\* render threads, and primitives in the scenes they query
NumThreads == 2
NumThreadPrims == 2
\* stats items a thread can register, and calls of FlushStatsData per thread
NumStatsItems == 2
MaxFlushCalls == 2
\* primitives in the scenes where the order of the nearest-hit stack is followed
NumTraversalPrims == 3
\* primitives handed to Build when the order of m_bvhpri is followed
NumPartitionPrims == 3
\* primitives in a leaf whose packing is followed
NumLeafPrims == 8
\* primitives handed to Build when its steps are followed
NumBuildPrims == 5
\* digits of the largest counter value handed to StatsInt::ToString
MaxDigits == 7
\* primitives handed to Build when its termination is checked
NumTerminationPrims == 4
\* a Disney parameter takes the values 0/ParamSteps .. ParamSteps/ParamSteps
ParamSteps == 1
\* the random number r takes the values 0/RandSteps .. (RandSteps-1)/RandSteps
RandSteps == 2

(***************************************************************************)
(* Program constants.                                                      *)
(***************************************************************************)
QBVH_CHILD_CNT == 4
OBVH_CHILD_CNT == 8

\* the scalar and SSE builds are the 4-wide Qbvh, the AVX build the 8-wide Obvh
ChildCnt(im) == IF im = "avx" THEN OBVH_CHILD_CNT ELSE QBVH_CHILD_CNT

FBVH_CHILD_CNT == ChildCnt(impl)

\* stands for float's FLT_MAX: larger than every distance of the model
FLT_MAX == MaxT + 1

Impls == {"scalar", "sse", "avx"}
MatIDs == {"skin", "marble"}

Min(S) == CHOOSE x \in S : \A y \in S : x <= y
Max(S) == CHOOSE x \in S : \A y \in S : x >= y

(***************************************************************************)
(* Intersection (math/intersection.h)                                      *)
(***************************************************************************)
\* Intersection::Reset, and the default member initialisers
Intersection_Reset == [t |-> FLT_MAX, primitive |-> 0]

(***************************************************************************)
(* Build                                                                   *)
(***************************************************************************)
makeLeaf(start, end) ==
    [pri_offset |-> start, pri_cnt |-> end - start, child_cnt |-> 0, children |-> <<>>]

\* The widening loop of splitNode.  pickBestSplit is outside the sources: every
\* outcome is allowed, a declined split (sah >= prim_cnt) or a partition at any
\* mid; a partition with mid = start or mid = end joins done_splitting too.
RECURSIVE Widen(_, _, _)
Widen(to_split, done_splitting, K) ==
    IF to_split = <<>> \/ Len(to_split) + Len(done_splitting) >= K
    THEN {<<to_split, done_splitting>>}
    ELSE LET cur == Head(to_split)
             rest == Tail(to_split)
         IN  Widen(rest, Append(done_splitting, cur), K)
             \cup UNION { Widen(rest \o << <<cur[1], mid>>, <<mid, cur[2]>> >>,
                                done_splitting, K)
                          : mid \in (cur[1] + 1)..(cur[2] - 1) }

RECURSIVE SeqProduct(_)
SeqProduct(sets) ==
    IF sets = <<>> THEN {<<>>}
    ELSE {<<h>> \o t : h \in Head(sets), t \in SeqProduct(Tail(sets))}

\* every subtree splitNode can build over [start, start + cnt) at this depth
RECURSIVE splitNode(_, _, _, _)
splitNode(start, cnt, depth, K) ==
    IF cnt <= m_maxPriInLeaf \/ depth = m_maxNodeDepth
    THEN {makeLeaf(start, start + cnt)}
    ELSE UNION {
           LET ch == w[1] \o w[2] IN
           IF Len(ch) = 1
           THEN {makeLeaf(start, start + cnt)}
           ELSE { [pri_offset |-> start, pri_cnt |-> cnt,
                   child_cnt |-> Len(ch), children |-> cs]
                  : cs \in SeqProduct([j \in 1..Len(ch) |->
                             splitNode(ch[j][1], ch[j][2] - ch[j][1], depth + 1, K)]) }
           : w \in Widen(<< <<start, start + cnt>> >>, <<>>, K) }

\* m_depth = fmax(m_depth, depth) over the leaves made
RECURSIVE LeafDepth(_, _)
LeafDepth(node, depth) ==
    IF node.child_cnt = 0 THEN depth
    ELSE Max({LeafDepth(node.children[j], depth + 1) : j \in 1..node.child_cnt})

\* the trees Build can leave over n primitives
Build(n, K) == splitNode(0, n, 1, K)

\* Build, one step of splitNode at a time.  A node is addressed by the child
\* indices on the way down from m_root (the Fbvh_Node* of the code).
BuildIdle == [pc |-> "none"]

RECURSIVE GetNode(_, _)
GetNode(node, path) ==
    IF path = <<>> THEN node ELSE GetNode(node.children[Head(path)], Tail(path))

RECURSIVE SetNode(_, _, _)
SetNode(node, path, new) ==
    IF path = <<>> THEN new
    ELSE [node EXCEPT !.children[Head(path)] = SetNode(@, Tail(path), new)]

\* std::make_unique<Fbvh_Node>(offset, cnt): a node without children yet
Fbvh_Node(offset, cnt) ==
    [pri_offset |-> offset, pri_cnt |-> cnt, child_cnt |-> 0, children |-> <<>>]

\* the costs pickBestSplit can return for a partition of prim_cnt primitives,
\* in units of one primitive: below, at and above the cost of a leaf
SahCosts(prim_cnt) == {prim_cnt - 1, prim_cnt, prim_cnt + 1}

\* the test at the head of splitNode
IsLeafAtCall_NoDepth(pri_cnt, depth) == pri_cnt <= m_maxPriInLeaf

IsLeafAtCall(pri_cnt, depth) == pri_cnt <= m_maxPriInLeaf \/ depth = m_maxNodeDepth

\* the condition of the widening loop
WidenGoesOn_OneMore(to_split, done_splitting) ==
    to_split # <<>> /\ Len(to_split) + Len(done_splitting) <= FBVH_CHILD_CNT

WidenGoesOn(to_split, done_splitting) ==
    to_split # <<>> /\ Len(to_split) + Len(done_splitting) < FBVH_CHILD_CNT

\* std::queue::front
queue_front_Largest(q) ==
    q[CHOOSE i \in 1..Len(q) : \A j \in 1..Len(q) : q[i][2] - q[i][1] >= q[j][2] - q[j][1]]

queue_front(q) == Head(q)

\* the body of the loop after pickBestSplit and std::partition: to_split is the
\* queue after the pop, mid the place where std::partition ended
SplitDecision_WhateverSah(sah, cur_split, mid, to_split, done_splitting) ==
    IF mid = cur_split[1] \/ mid = cur_split[2]
    THEN [to_split |-> to_split, done_splitting |-> Append(done_splitting, cur_split)]
    ELSE [to_split |-> to_split \o << <<cur_split[1], mid>>, <<mid, cur_split[2]>> >>,
          done_splitting |-> done_splitting]

\* variant: a partition that std::partition left with an empty side is split
\* all the same
SplitDecision_EmptySides(sah, cur_split, mid, to_split, done_splitting) ==
    LET prim_cnt == cur_split[2] - cur_split[1] IN
    IF sah >= prim_cnt
    THEN [to_split |-> to_split, done_splitting |-> Append(done_splitting, cur_split)]
    ELSE [to_split |-> to_split \o << <<cur_split[1], mid>>, <<mid, cur_split[2]>> >>,
          done_splitting |-> done_splitting]

SplitDecision(sah, cur_split, mid, to_split, done_splitting) ==
    LET prim_cnt == cur_split[2] - cur_split[1] IN
    IF sah >= prim_cnt
    THEN [to_split |-> to_split, done_splitting |-> Append(done_splitting, cur_split)]
    ELSE IF mid = cur_split[1] \/ mid = cur_split[2]
    THEN [to_split |-> to_split, done_splitting |-> Append(done_splitting, cur_split)]
    ELSE [to_split |-> to_split \o << <<cur_split[1], mid>>, <<mid, cur_split[2]>> >>,
          done_splitting |-> done_splitting]

\* variant: the left part is filled with copies of its first primitive
std_partition_Copies(a, start, end, left) ==
    [i \in 1..Len(a) |-> IF start < i /\ i <= start + Cardinality(left)
                         THEN a[start + 1] ELSE a[i]]

\* std::partition over m_bvhpri[start, end): the primitives at the places in
\* left (those with centroid < split_pos) come first; each group is kept in
\* its order here, the order std::partition leaves being unspecified
std_partition(a, start, end, left) ==
    LET idx == [j \in 1..(end - start) |-> start + j]
        InLeft(i) == i \in left
        NotInLeft(i) == i \notin left
        order == SelectSeq(idx, InLeft) \o SelectSeq(idx, NotInLeft)
    IN  [i \in 1..Len(a) |-> IF start < i /\ i <= end THEN a[order[i - start]] ELSE a[i]]

\* the arrays std::partition can leave with mid - start primitives on the left
Partitioned(a, start, end, mid) ==
    {std_partition(a, start, end, left) :
        left \in {L \in SUBSET ((start + 1)..end) : Cardinality(L) = mid - start}}

\* populate_child over to_split, then over done_splitting
populate_child(to_split, done_splitting) ==
    LET q == to_split \o done_splitting IN
    [j \in 1..Len(q) |-> Fbvh_Node(q[j][1], q[j][2] - q[j][1])]

\* splitNode is entered for the next node: the leaf test, or the first partition
splitNode_Call ==
    /\ build.pc = "ret"
    /\ build.todo # <<>>
    /\ LET path == Head(build.todo)
           node == GetNode(m_root, path)
           depth == Len(path) + 1
           start == node.pri_offset
           end == start + node.pri_cnt
       IN  IF IsLeafAtCall(node.pri_cnt, depth)
           THEN /\ m_root' = SetNode(m_root, path, makeLeaf(start, end))
                /\ m_depth' = Max({m_depth, depth})
                /\ build' = [build EXCEPT !.todo = Tail(@)]
           ELSE /\ build' = [build EXCEPT !.pc = "widen", !.path = path,
                                          !.to_split = << <<start, end>> >>,
                                          !.done_splitting = <<>>]
                /\ UNCHANGED <<m_root, m_depth>>
    /\ UNCHANGED <<impl, pri, matID, fn, pc, bvh_stack, bvh_stack_cap,
                   intersect, bag, ret, bx, thread, tls, stats>>

\* one turn of the widening loop
splitNode_Widen ==
    /\ build.pc = "widen"
    /\ WidenGoesOn(build.to_split, build.done_splitting)
    /\ LET cur_split == queue_front(build.to_split)
           rest == Tail(build.to_split)
       IN  \E sah \in SahCosts(cur_split[2] - cur_split[1]), mid \in cur_split[1]..cur_split[2] :
             LET d == SplitDecision(sah, cur_split, mid, rest, build.done_splitting) IN
             /\ IF sah >= cur_split[2] - cur_split[1]
                THEN pri' = pri
                ELSE pri' \in Partitioned(pri, cur_split[1], cur_split[2], mid)
             /\ build' = [build EXCEPT
                         !.to_split = d.to_split,
                         !.done_splitting = d.done_splitting,
                         !.pending = build.to_split,
                         !.cur_split = cur_split,
                         !.sah = sah,
                         !.mid = mid,
                         !.declined = IF sah >= cur_split[2] - cur_split[1]
                                      THEN @ \cup {<<build.path, cur_split>>} ELSE @,
                         !.kept = IF sah < cur_split[2] - cur_split[1]
                                     /\ (mid = cur_split[1] \/ mid = cur_split[2])
                                  THEN @ \cup {<<build.path, cur_split>>} ELSE @]
    /\ UNCHANGED <<impl, m_root, m_depth, matID, fn, pc, bvh_stack, bvh_stack_cap,
                   intersect, bag, ret, bx, thread, tls, stats>>

\* after the loop: a leaf when one partition is left, the children otherwise;
\* the recursion then takes the children in order, before the nodes still to do
splitNode_Populate ==
    /\ build.pc = "widen"
    /\ ~WidenGoesOn(build.to_split, build.done_splitting)
    /\ LET path == build.path
           node == GetNode(m_root, path)
           depth == Len(path) + 1
           start == node.pri_offset
           end == start + node.pri_cnt
           children == populate_child(build.to_split, build.done_splitting)
       IN  IF Len(build.to_split) + Len(build.done_splitting) = 1
           THEN /\ m_root' = SetNode(m_root, path, makeLeaf(start, end))
                /\ m_depth' = Max({m_depth, depth})
                /\ build' = [build EXCEPT !.pc = "ret", !.todo = Tail(@),
                                          !.to_split = <<>>, !.done_splitting = <<>>,
                                          !.pending = <<>>, !.cur_split = <<>>,
                                          !.sah = 0, !.mid = 0]
           ELSE /\ m_root' = SetNode(m_root, path,
                                     [node EXCEPT !.child_cnt = Len(children),
                                                  !.children = children])
                /\ m_depth' = m_depth
                /\ build' = [build EXCEPT
                               !.pc = "ret",
                               !.todo = [j \in 1..Len(children) |-> Append(path, j)]
                                        \o Tail(@),
                               !.to_split = <<>>, !.done_splitting = <<>>,
                               !.pending = <<>>, !.cur_split = <<>>,
                               !.sah = 0, !.mid = 0]
    /\ UNCHANGED <<impl, pri, matID, fn, pc, bvh_stack, bvh_stack_cap,
                   intersect, bag, ret, bx, thread, tls, stats>>

\* splitNode has returned to Build
Build_Return ==
    /\ build.pc = "ret"
    /\ build.todo = <<>>
    /\ build' = [build EXCEPT !.pc = "built"]
    /\ UNCHANGED <<impl, pri, m_root, m_depth, matID, fn, pc, bvh_stack, bvh_stack_cap,
                   intersect, bag, ret, bx, thread, tls, stats>>

(***************************************************************************)
(* makeLeaf under the SIMD builds: the primitives of the leaf are packed    *)
(* into batches.  A batch is the sequence of the primitive indices pushed   *)
(* into it; Triangle4/8 and Line4/8 are outside the sources: PushTriangle   *)
(* and PushLine add the primitive and report a full batch, PackData reports *)
(* a batch that is not empty (and pads it), Reset empties it.               *)
(***************************************************************************)
ShapeTypes == {"SHAPE_TRIANGLE", "SHAPE_LINE", "SHAPE_OTHER"}

\* lanes of Triangle4 and Line4, of Triangle8 and Line8
SimdWidth(im) == IF im = "avx" THEN 8 ELSE 4

PushPrimitive(batch, i) == Append(batch, i)

IsFull(im, batch) == Len(batch) = SimdWidth(im)

PackData(batch) == batch # <<>>

\* the body of the loop for primitive i of shape type shape_type
makeLeaf_Push(im, leaf, i, shape_type) ==
    IF shape_type = "SHAPE_TRIANGLE"
    THEN LET tri == PushPrimitive(leaf.tri, i) IN
         IF IsFull(im, tri) /\ PackData(tri)
         THEN [leaf EXCEPT !.tri_list = Append(@, tri), !.tri = <<>>]
         ELSE [leaf EXCEPT !.tri = tri]
    ELSE IF shape_type = "SHAPE_LINE"
    THEN LET line == PushPrimitive(leaf.line, i) IN
         IF IsFull(im, line) /\ PackData(line)
         THEN [leaf EXCEPT !.line_list = Append(@, line), !.line = <<>>]
         ELSE [leaf EXCEPT !.line = line]
    ELSE [leaf EXCEPT !.other_list = Append(@, i)]

\* variant: the batches left after the loop are not stored
makeLeaf_Rest_Dropped(leaf) == leaf

\* after the loop: the batches that are not empty are stored
makeLeaf_Rest(leaf) ==
    LET a == IF PackData(leaf.tri) THEN [leaf EXCEPT !.tri_list = Append(@, leaf.tri)]
             ELSE leaf
    IN  IF PackData(a.line) THEN [a EXCEPT !.line_list = Append(@, a.line)] ELSE a

\* one turn of for( i = _start ; i < _end ; i++ )
makeLeaf_Loop ==
    /\ build.pc = "packing"
    /\ build.i < build.pri_offset + build.pri_cnt
    /\ build' = [build EXCEPT
                   !.leaf = makeLeaf_Push(impl, @, build.i, build.shapes[build.i + 1]),
                   !.i = @ + 1]
    /\ UNCHANGED <<impl, pri, m_root, m_depth, matID, fn, pc, bvh_stack, bvh_stack_cap,
                   intersect, bag, ret, bx, thread, tls, stats>>

\* the loop is over
makeLeaf_Return ==
    /\ build.pc = "packing"
    /\ build.i >= build.pri_offset + build.pri_cnt
    /\ build' = [build EXCEPT !.leaf = makeLeaf_Rest(@), !.pc = "packed"]
    /\ UNCHANGED <<impl, pri, m_root, m_depth, matID, fn, pc, bvh_stack, bvh_stack_cap,
                   intersect, bag, ret, bx, thread, tls, stats>>

EmptyBBox == [empty |-> TRUE, lo |-> 0, hi |-> 0]

calcBoundingBox(node, primitives) ==
    LET idx == (node.pri_offset + 1)..(node.pri_offset + node.pri_cnt) IN
    IF idx = {} THEN EmptyBBox
    ELSE [empty |-> FALSE,
          lo |-> Min({primitives[i].pos : i \in idx}),
          hi |-> Max({primitives[i].pos : i \in idx})]

\* computeBBox: the box of the whole scene
m_bbox == calcBoundingBox(m_root, pri)

(***************************************************************************)
(* Geometric kernel                                                        *)
(***************************************************************************)
\* ray against box: the near parameter, 0 when the origin is inside, negative on a miss
Intersect(bbox) ==
    IF bbox.empty \/ bbox.hi < 0 THEN -1
    ELSE IF bbox.lo > 0 THEN bbox.lo ELSE 0

\* Primitive::GetIntersect(ray, intersect) with a record to fill
Primitive_GetIntersect(i, isect) ==
    LET p == pri[i + 1]
        hit == p.solid /\ p.pos > 0 /\ p.pos < isect.t
    IN  [hit |-> hit,
         intersect |-> IF hit THEN [t |-> p.pos, primitive |-> i + 1] ELSE isect]

\* Primitive::GetIntersect(ray, nullptr)
Primitive_IsHit(i) == pri[i + 1].solid /\ pri[i + 1].pos > 0

\* stands for the nullptr of a value-initialised array slot
NullNode == makeLeaf(0, 0)

\* children[k] of the C++ node, k from 0; the slots past child_cnt hold nullptr
Child(node, k) == IF k < Len(node.children) THEN node.children[k + 1] ELSE NullNode

\* variant: the slots without a child hold a box at the origin
calcBoundingBoxSIMD_OriginPadded(im, node) ==
    [k \in 0..(ChildCnt(im) - 1) |->
        IF k < node.child_cnt THEN calcBoundingBox(Child(node, k), pri)
        ELSE [empty |-> FALSE, lo |-> 0, hi |-> 0]]

\* the K lanes of a node's packed box: lane k holds children[k]'s box, the
\* box calcBoundingBox returns for a null node where there is no child
calcBoundingBoxSIMD(im, node) ==
    [k \in 0..(ChildCnt(im) - 1) |->
        IF k < node.child_cnt THEN calcBoundingBox(Child(node, k), pri)
        ELSE EmptyBBox]

\* the K-wide box test: a lane is set when its box is hit
IntersectBBox_SIMD(im, node) ==
    LET bbox == calcBoundingBoxSIMD(im, node)
        f == [k \in 0..(ChildCnt(im) - 1) |-> Intersect(bbox[k])]
    IN  [mask |-> {k \in 0..(ChildCnt(im) - 1) : f[k] >= 0}, f_min |-> f]

__bsf(m) == Min(m)

\* the scalar build's f_min array
ScalarFMin(node) ==
    [k \in 0..(node.child_cnt - 1) |-> Intersect(calcBoundingBox(Child(node, k), pri))]

\* one round of "pick the farthest child not yet pushed": the first j with the
\* largest f_min[j] > floor, or -1
PickMax_Nearest(f_min, child_cnt, floor) ==
    LET cand == {j \in 0..(child_cnt - 1) : f_min[j] > floor} IN
    IF cand = {} THEN -1
    ELSE LET best == Min({f_min[j] : j \in cand}) IN
         Min({j \in cand : f_min[j] = best})

PickMax(f_min, child_cnt, floor) ==
    LET cand == {j \in 0..(child_cnt - 1) : f_min[j] > floor} IN
    IF cand = {} THEN -1
    ELSE LET best == Max({f_min[j] : j \in cand}) IN
         Min({j \in cand : f_min[j] = best})

RECURSIVE PushFarthestFirst(_, _, _, _, _)
PushFarthestFirst(node, f_min, stack, i, floor) ==
    IF i >= node.child_cnt THEN stack
    ELSE LET k == PickMax(f_min, node.child_cnt, floor) IN
         IF k = -1 THEN stack
         ELSE PushFarthestFirst(node, [f_min EXCEPT ![k] = -1],
                                Append(stack, <<Child(node, k), f_min[k]>>),
                                i + 1, floor)

(***************************************************************************)
(* Nearest hit: Fbvh::GetIntersect(ray, intersect)                         *)
(***************************************************************************)
\* the leaf loop: every primitive of the leaf is tested against the record
RECURSIVE LeafIntersect(_, _, _)
LeafIntersect(i, end, isect) ==
    IF i >= end THEN isect
    ELSE LeafIntersect(i + 1, end, Primitive_GetIntersect(i, isect).intersect)

\* interior node, scalar build: all children by decreasing f_min, misses left out
PushChildren_Scalar(node, stack) ==
    PushFarthestFirst(node, ScalarFMin(node), stack, 0, -1)

\* interior node, SSE and AVX builds: the 1-hit and 2-hit fast paths, then the
\* generic loop
PushChildren_SIMD(im, node, stack) ==
    LET r == IntersectBBox_SIMD(im, node)
        m == r.mask
        sse_f_min == r.f_min
    IN  IF m = {} THEN stack
        ELSE LET k0 == __bsf(m)
                 t0 == sse_f_min[k0]
                 m1 == m \ {k0}
             IN  IF m1 = {} THEN Append(stack, <<Child(node, k0), t0>>)
                 ELSE LET k1 == __bsf(m1)
                          t1 == sse_f_min[k1]
                          m2 == m1 \ {k1}
                      IN  IF m2 = {}
                          THEN IF t0 < t1
                               THEN stack \o << <<Child(node, k1), t1>>, <<Child(node, k0), t0>> >>
                               ELSE stack \o << <<Child(node, k0), t0>>, <<Child(node, k1), t1>> >>
                          ELSE PushFarthestFirst(node, sse_f_min, stack, 0, 0)

PushChildren(im, node, stack) ==
    IF im = "scalar" THEN PushChildren_Scalar(node, stack)
    ELSE PushChildren_SIMD(im, node, stack)

Top(stack) == stack[Len(stack)]
Pop(stack) == SubSeq(stack, 1, Len(stack) - 1)

\* if( intersect && intersect->t < fmin ) continue;
IsPruned_OrEqual(isect, fmin) == isect.t <= fmin

IsPruned(isect, fmin) == isect.t < fmin

\* one iteration of while( si > 0 )
GetIntersect_Iter(im, stack, isect) ==
    LET node == Top(stack)[1]
        fmin == Top(stack)[2]
    IN  IF IsPruned(isect, fmin)
        THEN [stack |-> Pop(stack), intersect |-> isect]
        ELSE IF node.child_cnt = 0
        THEN [stack |-> Pop(stack),
              intersect |-> LeafIntersect(node.pri_offset,
                                          node.pri_offset + node.pri_cnt, isect)]
        ELSE [stack |-> PushChildren(im, node, Pop(stack)), intersect |-> isect]

\* the bvh_stack of a function is allocated once per thread, on its first call
AllocStack(cap) ==
    IF cap = 0 THEN m_depth * FBVH_CHILD_CNT ELSE cap

\* if (fmin < 0.0f) return: the ray misses the box of the scene
RootMissed_Never(fmin) == FALSE

RootMissed(fmin) == fmin < 0

\* the record is the caller's: the query starts from what it holds
GetIntersect_Begin ==
    /\ pc = "idle" /\ fn = "GetIntersect"
    /\ bvh_stack_cap' = [bvh_stack_cap EXCEPT ![fn] = AllocStack(@)]
    /\ intersect' = intersect
    /\ LET fmin == Intersect(m_bbox) IN
       IF RootMissed(fmin)
       THEN pc' = "done" /\ ret' = FALSE /\ bvh_stack' = <<>>
       ELSE pc' = "loop" /\ ret' = ret /\ bvh_stack' = << <<m_root, fmin>> >>
    /\ UNCHANGED <<impl, pri, m_root, m_depth, matID, fn, bag, bx, thread, tls, stats, build>>

GetIntersect_Loop ==
    /\ pc = "loop" /\ fn = "GetIntersect" /\ Len(bvh_stack) > 0
    /\ LET r == GetIntersect_Iter(impl, bvh_stack, intersect) IN
       bvh_stack' = r.stack /\ intersect' = r.intersect
    /\ UNCHANGED <<impl, pri, m_root, m_depth, matID, fn, pc, bvh_stack_cap, bag, ret, bx, thread, tls, stats, build>>

GetIntersect_Return ==
    /\ pc = "loop" /\ fn = "GetIntersect" /\ Len(bvh_stack) = 0
    /\ ret' = (intersect.primitive # 0)
    /\ pc' = "done"
    /\ UNCHANGED <<impl, pri, m_root, m_depth, matID, fn, bvh_stack, bvh_stack_cap,
                   intersect, bag, bx, thread, tls, stats, build>>

\* the loop run until the stack is empty
RECURSIVE GetIntersect_Run(_, _, _)
GetIntersect_Run(im, stack, isect) ==
    IF stack = <<>> THEN isect
    ELSE LET r == GetIntersect_Iter(im, stack, isect) IN
         GetIntersect_Run(im, r.stack, r.intersect)

\* the whole query as build im runs it on the current tree and ray
Fbvh_GetIntersect(im) ==
    LET fmin == Intersect(m_bbox)
        isect == IF fmin < 0 THEN Intersection_Reset
                 ELSE GetIntersect_Run(im, << <<m_root, fmin>> >>, Intersection_Reset)
    IN  [ret |-> isect.primitive # 0, intersect |-> isect]

(***************************************************************************)
(* Any hit: Fbvh::IsOccluded(ray)                                          *)
(***************************************************************************)
\* the children numbered in ks, in that order
ChildSeq(node, ks) == [j \in 1..Len(ks) |-> Child(node, ks[j])]

\* the indices 0..n-1 that satisfy Test, ascending
Ascending(n, Test(_)) == SelectSeq([j \in 1..n |-> j - 1], Test)

\* interior node, scalar build: every child whose box is hit, in index order
OccludedPush_Scalar(node, stack) ==
    LET f_min == ScalarFMin(node)
        IsHit(k) == f_min[k] >= 0
    IN  stack \o ChildSeq(node, Ascending(node.child_cnt, IsHit))

\* the unrolled pushes the SSE and AVX builds share: one, two or three lanes set
OccludedPush_UpTo3(node, stack, m) ==
    LET k0 == __bsf(m)
        m1 == m \ {k0}
    IN  IF m1 = {} THEN stack \o ChildSeq(node, <<k0>>)
        ELSE LET k1 == __bsf(m1)
                 m2 == m1 \ {k1}
             IN  IF m2 = {} THEN stack \o ChildSeq(node, <<k1, k0>>)
                 ELSE LET k2 == __bsf(m2) IN
                      stack \o ChildSeq(node, <<k2, k1, k0>>)

\* interior node, SSE build
OccludedPush_SSE(node, stack) ==
    LET m == IntersectBBox_SIMD("sse", node).mask IN
    IF m = {} THEN stack
    ELSE IF Cardinality(m) <= 3 THEN OccludedPush_UpTo3(node, stack, m)
    ELSE LET k0 == __bsf(m)
             k1 == __bsf(m \ {k0})
             k2 == __bsf(m \ {k0, k1})
         IN  stack \o ChildSeq(node, <<k2, k2, k1, k0>>)

\* interior node, AVX build: with four or more lanes set, every non-null child
OccludedPush_AVX(node, stack) ==
    LET m == IntersectBBox_SIMD("avx", node).mask
        NonNull(k) == k < node.child_cnt
    IN  IF m = {} THEN stack
        ELSE IF Cardinality(m) <= 3 THEN OccludedPush_UpTo3(node, stack, m)
        ELSE stack \o ChildSeq(node, Ascending(OBVH_CHILD_CNT, NonNull))

OccludedPush(im, node, stack) ==
    IF im = "scalar" THEN OccludedPush_Scalar(node, stack)
    ELSE IF im = "sse" THEN OccludedPush_SSE(node, stack)
    ELSE OccludedPush_AVX(node, stack)

\* one iteration of while (si > 0); found: a primitive of the leaf reported a hit
IsOccluded_Iter(im, stack) ==
    LET node == Top(stack) IN
    IF node.child_cnt = 0
    THEN [stack |-> Pop(stack),
          found |-> \E i \in node.pri_offset..(node.pri_offset + node.pri_cnt - 1) :
                        Primitive_IsHit(i)]
    ELSE [stack |-> OccludedPush(im, node, Pop(stack)), found |-> FALSE]

IsOccluded_Begin ==
    /\ pc = "idle" /\ fn = "IsOccluded"
    /\ bvh_stack_cap' = [bvh_stack_cap EXCEPT ![fn] = AllocStack(@)]
    /\ IF RootMissed(Intersect(m_bbox))
       THEN pc' = "done" /\ ret' = FALSE /\ bvh_stack' = <<>>
       ELSE pc' = "loop" /\ ret' = ret /\ bvh_stack' = <<m_root>>
    /\ UNCHANGED <<impl, pri, m_root, m_depth, matID, fn, intersect, bag, bx, thread, tls, stats, build>>

IsOccluded_Loop ==
    /\ pc = "loop" /\ fn = "IsOccluded" /\ Len(bvh_stack) > 0
    /\ LET r == IsOccluded_Iter(impl, bvh_stack) IN
       /\ bvh_stack' = r.stack
       /\ ret' = r.found
       /\ pc' = IF r.found THEN "done" ELSE "loop"
    /\ UNCHANGED <<impl, pri, m_root, m_depth, matID, fn, bvh_stack_cap, intersect, bag, bx, thread, tls, stats, build>>

IsOccluded_Return ==
    /\ pc = "loop" /\ fn = "IsOccluded" /\ Len(bvh_stack) = 0
    /\ ret' = FALSE
    /\ pc' = "done"
    /\ UNCHANGED <<impl, pri, m_root, m_depth, matID, fn, bvh_stack, bvh_stack_cap,
                   intersect, bag, bx, thread, tls, stats, build>>

\* the loop run until a leaf reports a hit or the stack is empty
RECURSIVE IsOccluded_Run(_, _)
IsOccluded_Run(im, stack) ==
    IF stack = <<>> THEN FALSE
    ELSE LET r == IsOccluded_Iter(im, stack) IN
         IF r.found THEN TRUE ELSE IsOccluded_Run(im, r.stack)

\* the whole query as build im runs it on the current tree and ray
Fbvh_IsOccluded(im) ==
    IF Intersect(m_bbox) < 0 THEN FALSE ELSE IsOccluded_Run(im, <<m_root>>)

(***************************************************************************)
(* Multi hit: Fbvh::GetIntersect(ray, BSSRDFIntersections&, matID)         *)
(***************************************************************************)
BagReset == [cnt |-> 0, intersections |-> <<>>, maxt |-> FLT_MAX]

\* BSSRDFIntersections::ResolveMaxDepth: maxt becomes the largest stored t
ResolveMaxDepth(b) ==
    [b EXCEPT !.maxt = Max({0} \cup {b.intersections[j].t : j \in 1..b.cnt})]

\* variant: the full bag gives up a slot holding the smallest t
PickedSlot_Smallest(b) ==
    LET ts == {b.intersections[j].t : j \in 1..TOTAL_SSS_INTERSECTION_CNT}
    IN  Min({j \in 1..TOTAL_SSS_INTERSECTION_CNT : b.intersections[j].t = Min(ts)}) - 1

\* the slot the full bag gives up: the first one holding the largest t, -1 when
\* no stored t exceeds 0
PickedSlot(b) ==
    LET ts == {b.intersections[j].t : j \in 1..TOTAL_SSS_INTERSECTION_CNT}
        t == Max({0} \cup ts)
    IN  IF t = 0 THEN -1
        ELSE Min({j \in 1..TOTAL_SSS_INTERSECTION_CNT : b.intersections[j].t = t}) - 1

\* variant: the replacement leaves maxt as it was
StoreHit_StaleMaxt(b, intersection) ==
    IF b.cnt < TOTAL_SSS_INTERSECTION_CNT
    THEN [b EXCEPT !.intersections = Append(@, intersection), !.cnt = @ + 1]
    ELSE LET picked_i == PickedSlot(b) IN
         IF picked_i >= 0
         THEN [b EXCEPT !.intersections[picked_i + 1] = intersection]
         ELSE b

\* a primitive of the requested material reported the hit intersection
StoreHit(b, intersection) ==
    IF b.cnt < TOTAL_SSS_INTERSECTION_CNT
    THEN [b EXCEPT !.intersections = Append(@, intersection), !.cnt = @ + 1]
    ELSE LET picked_i == PickedSlot(b) IN
         ResolveMaxDepth(IF picked_i >= 0
                         THEN [b EXCEPT !.intersections[picked_i + 1] = intersection]
                         ELSE b)

\* the leaf loop of the scalar build
RECURSIVE LeafMultiIntersect(_, _, _)
LeafMultiIntersect(i, end, b) ==
    IF i >= end THEN b
    ELSE LeafMultiIntersect(i + 1, end,
           IF pri[i + 1].mat # matID THEN b
           ELSE LET r == Primitive_GetIntersect(i, Intersection_Reset) IN
                IF r.hit THEN StoreHit(b, r.intersect) ELSE b)

\* one iteration of while (si > 0)
GetIntersectSSS_Iter(im, stack, b) ==
    LET node == Top(stack)[1]
        fmin == Top(stack)[2]
    IN  IF b.maxt < fmin
        THEN [stack |-> Pop(stack), bag |-> b]
        ELSE IF node.child_cnt = 0
        THEN [stack |-> Pop(stack),
              bag |-> LeafMultiIntersect(node.pri_offset,
                                         node.pri_offset + node.pri_cnt, b)]
        ELSE [stack |-> PushChildren(im, node, Pop(stack)), bag |-> b]

GetIntersectSSS_Begin ==
    /\ pc = "idle" /\ fn = "GetIntersectSSS"
    /\ bvh_stack_cap' = [bvh_stack_cap EXCEPT ![fn] = AllocStack(@)]
    /\ bag' = BagReset
    /\ LET fmin == Intersect(m_bbox) IN
       IF RootMissed(fmin)
       THEN pc' = "done" /\ bvh_stack' = <<>>
       ELSE pc' = "loop" /\ bvh_stack' = << <<m_root, fmin>> >>
    /\ UNCHANGED <<impl, pri, m_root, m_depth, matID, fn, intersect, ret, bx, thread, tls, stats, build>>

GetIntersectSSS_Loop ==
    /\ pc = "loop" /\ fn = "GetIntersectSSS" /\ Len(bvh_stack) > 0
    /\ LET r == GetIntersectSSS_Iter(impl, bvh_stack, bag) IN
       bvh_stack' = r.stack /\ bag' = r.bag
    /\ UNCHANGED <<impl, pri, m_root, m_depth, matID, fn, pc, bvh_stack_cap,
                   intersect, ret, bx, thread, tls, stats, build>>

GetIntersectSSS_Return ==
    /\ pc = "loop" /\ fn = "GetIntersectSSS" /\ Len(bvh_stack) = 0
    /\ pc' = "done"
    /\ UNCHANGED <<impl, pri, m_root, m_depth, matID, fn, bvh_stack, bvh_stack_cap,
                   intersect, bag, ret, bx, thread, tls, stats, build>>

\* the multi-hit loop run until the stack is empty
RECURSIVE GetIntersectSSS_Run(_, _, _)
GetIntersectSSS_Run(im, stack, b) ==
    IF stack = <<>> THEN b
    ELSE LET r == GetIntersectSSS_Iter(im, stack, b) IN
         GetIntersectSSS_Run(im, r.stack, r.bag)

\* the whole multi-hit query as build im runs it on the current tree and ray
Fbvh_GetIntersectSSS(im) ==
    LET fmin == Intersect(m_bbox) IN
    IF fmin < 0 THEN BagReset
    ELSE GetIntersectSSS_Run(im, << <<m_root, fmin>> >>, BagReset)

(***************************************************************************)
(* Render threads.  Every thread calls the three query functions of the    *)
(* one Fbvh; si, the Intersection and the bag are the caller's, the array  *)
(* behind bvh_stack is a static thread_local of the function.  One         *)
(* iteration of a query's loop is one step: all it reads besides its own   *)
(* array and locals is the tree and the primitives.                        *)
(***************************************************************************)
Threads == 1..NumThreads

QueryFns == {"GetIntersect", "IsOccluded", "GetIntersectSSS"}


\* variant: a plain static array, one for all threads
StackOwner_Static(t) == 1

\* static thread_local: thread t reaches its own instance of the array
StackOwner(t) == t

\* std::make_unique<T[]>(m_depth * FBVH_CHILD_CNT): value-initialised slots
NewStack(f) ==
    [j \in 1..(m_depth * FBVH_CHILD_CNT) |->
        IF f = "IsOccluded" THEN NullNode ELSE <<NullNode, 0>>]

\* the array after the entries 1..si were written; a pop leaves its slot as it is
StoreStack(array, stack) ==
    [j \in 1..Len(array) |-> IF j <= Len(stack) THEN stack[j] ELSE array[j]]

ThreadIdle ==
    [fn |-> "none", pc |-> "idle", si |-> 0, intersect |-> Intersection_Reset,
     bag |-> BagReset, ret |-> FALSE]

\* the call up to the while loop.  The multi-hit leaf test of the SIMD builds
\* is outside the sources: multi-hit queries run on the scalar build.
Thread_Begin(t) ==
    /\ thread[t].pc = "idle"
    /\ \E f \in QueryFns :
         /\ f = "GetIntersectSSS" => impl = "scalar"
         /\ LET key == <<StackOwner(t), f>>
                array == IF tls[key] = <<>> THEN NewStack(f) ELSE tls[key]
                fmin == Intersect(m_bbox)
                entry == IF f = "IsOccluded" THEN m_root ELSE <<m_root, fmin>>
            IN  /\ tls' = [tls EXCEPT ![key] = IF fmin < 0 THEN array
                                                ELSE StoreStack(array, <<entry>>)]
                /\ thread' = [thread EXCEPT ![t] =
                       [fn |-> f, pc |-> IF fmin < 0 THEN "done" ELSE "loop",
                        si |-> IF fmin < 0 THEN 0 ELSE 1,
                        intersect |-> Intersection_Reset, bag |-> BagReset,
                        ret |-> FALSE]]
    /\ UNCHANGED <<impl, pri, m_root, m_depth, matID, fn, pc, bvh_stack, bvh_stack_cap,
                   intersect, bag, ret, bx, stats, build>>

\* one iteration of the loop of function f on the entries 1..si of its array
Thread_Iter(f, stack, th) ==
    CASE f = "GetIntersect" ->
           LET r == GetIntersect_Iter(impl, stack, th.intersect) IN
           [stack |-> r.stack, intersect |-> r.intersect, bag |-> th.bag, found |-> FALSE]
      [] f = "IsOccluded" ->
           LET r == IsOccluded_Iter(impl, stack) IN
           [stack |-> r.stack, intersect |-> th.intersect, bag |-> th.bag,
            found |-> r.found]
      [] f = "GetIntersectSSS" ->
           LET r == GetIntersectSSS_Iter(impl, stack, th.bag) IN
           [stack |-> r.stack, intersect |-> th.intersect, bag |-> r.bag, found |-> FALSE]

Thread_Loop(t) ==
    /\ thread[t].pc = "loop" /\ thread[t].si > 0
    /\ LET th == thread[t]
           key == <<StackOwner(t), th.fn>>
           array == tls[key]
           r == Thread_Iter(th.fn, SubSeq(array, 1, th.si), th)
       IN  IF Len(r.stack) > Len(array)
           THEN /\ thread' = [thread EXCEPT ![t].pc = "crashed"]
                /\ tls' = tls
           ELSE /\ tls' = [tls EXCEPT ![key] = StoreStack(array, r.stack)]
                /\ thread' = [thread EXCEPT ![t] =
                       [th EXCEPT !.si = Len(r.stack), !.intersect = r.intersect,
                                  !.bag = r.bag,
                                  !.ret = IF r.found THEN TRUE ELSE @,
                                  !.pc = IF r.found THEN "done" ELSE @]]
    /\ UNCHANGED <<impl, pri, m_root, m_depth, matID, fn, pc, bvh_stack, bvh_stack_cap,
                   intersect, bag, ret, bx, stats, build>>

\* the return after the loop
Thread_Return(t) ==
    /\ thread[t].pc = "loop" /\ thread[t].si = 0
    /\ thread' = [thread EXCEPT ![t].pc = "done",
                                ![t].ret = CASE thread[t].fn = "GetIntersect" ->
                                                  thread[t].intersect.primitive # 0
                                             [] thread[t].fn = "IsOccluded" -> FALSE
                                             [] thread[t].fn = "GetIntersectSSS" -> @]
    /\ UNCHANGED <<impl, pri, m_root, m_depth, matID, fn, pc, bvh_stack, bvh_stack_cap,
                   intersect, bag, ret, bx, tls, stats, build>>

(***************************************************************************)
(* Stats.  g_StatsItemContainer is thread-local: a vector of the items     *)
(* registered on the thread and the flag flushed.  summary counts, for the *)
(* item i of thread t, how often its data went into g_StatsSummary.        *)
(***************************************************************************)
StatsItems == 1..NumStatsItems

\* no stats in play
StatsIdle == [pc |-> "none"]

\* std::vector<const StatsItemRegister*> container; bool flushed = false;
StatsInit ==
    [pc |-> "running",
     container |-> [t \in Threads |-> <<>>],
     flushed |-> [t \in Threads |-> FALSE],
     summary |-> [k \in Threads \X StatsItems |-> 0],
     calls |-> [t \in Threads |-> 0]]

\* A failed sAssert: utility/sassert.h is outside the sources.  The code after
\* an sAssert handles the failed condition itself (DisneyBRDF::sample_f tests
\* total_weight <= 0 right after asserting total_weight > 0), so a build either
\* stops at the assertion or goes on past it.
sAssert_Failed == {"abort", "continue"}

\* the constructor of StatsItemRegister, run on thread t for its item i:
\* g_StatsItemContainer.Register(this)
StatsItemRegister(t, i) ==
    /\ stats.pc = "running"
    /\ \A j \in 1..Len(stats.container[t]) : stats.container[t][j] # i
    /\ stats' = [stats EXCEPT !.container[t] = Append(@, i)]
    /\ UNCHANGED <<impl, pri, m_root, m_depth, matID, fn, pc, bvh_stack, bvh_stack_cap,
                   intersect, bag, ret, bx, thread, tls, build>>

\* for (item : container) item->FlushData(): func(g_StatsSummary) once per item
FlushItems(t) ==
    [k \in Threads \X StatsItems |->
        IF k[1] = t /\ \E j \in 1..Len(stats.container[t]) : stats.container[t][j] = k[2]
        THEN stats.summary[k] + 1
        ELSE stats.summary[k]]

\* FlushStatsData on thread t: StatsItemContainer::FlushData
FlushStatsData(t) ==
    /\ stats.pc = "running"
    /\ stats.calls[t] < MaxFlushCalls
    /\ \E outcome \in sAssert_Failed :
         IF stats.flushed[t] /\ outcome = "abort"
         THEN stats' = [stats EXCEPT !.pc = "aborted", !.calls[t] = @ + 1]
         ELSE stats' = [stats EXCEPT !.summary = FlushItems(t), !.flushed[t] = TRUE,
                                     !.calls[t] = @ + 1]
    /\ UNCHANGED <<impl, pri, m_root, m_depth, matID, fn, pc, bvh_stack, bvh_stack_cap,
                   intersect, bag, ret, bx, thread, tls, build>>

(***************************************************************************)
(* BxDF sampling.  Directions lie in one plane through the shading normal, *)
(* 30 degrees apart: direction a makes the angle a * 30 with the tangent,  *)
(* so 3 is the normal, 1..5 the upper hemisphere, 0 and 6 the horizon and  *)
(* 7..11 the lower hemisphere.  A pdf or a spectrum is 0 or a term that    *)
(* names the function and the directions it was evaluated for.             *)
(***************************************************************************)
Dirs == 0..11
UpperDirs == 1..5

Zero == [v |-> "0", wo |-> 0, wi |-> 0]
Val(function, wo, wi) == [v |-> function, wo |-> wo, wi |-> wi]

\* the sign of CosTheta(w)
CosTheta(w) == IF w \in 1..5 THEN 1 ELSE IF w \in 7..11 THEN -1 ELSE 0

SameHemisphere(wo, wi) == CosTheta(wo) * CosTheta(wi) > 0

\* the sign of Dot(a, b), and 4 * Dot(a, b)^2
Dot(a, b) ==
    LET d == (a - b + 12) % 12 IN
    IF d \in {0, 1, 2, 10, 11} THEN 1 ELSE IF d \in {3, 9} THEN 0 ELSE -1

Dot2x4(a, b) ==
    LET d == (a - b + 12) % 12 IN
    IF d \in {0, 6} THEN 4 ELSE IF d \in {1, 5, 7, 11} THEN 3
    ELSE IF d \in {2, 4, 8, 10} THEN 1 ELSE 0

\* wi = 2 * wh * Dot(wo, wh) - wo: wo mirrored at wh
Reflect(wo, wh) == (2 * wh - wo + 12) % 12

MicroFacetReflection_f(wo, wi) ==
    IF CosTheta(wi) = 0 \/ CosTheta(wo) = 0 THEN Zero
    ELSE Val("MicroFacetReflection::f", wo, wi)

MicroFacetReflection_Pdf(wo, wi) ==
    IF ~SameHemisphere(wo, wi) THEN Zero
    ELSE Val("MicroFacetReflection::Pdf", wo, wi)

\* wh: the sampled normal; wi, pdf: what the caller's variables hold at the call.
\* Returns what they hold afterwards and the returned spectrum.
MicroFacetReflection_sample_f(wo, wh, wi, pdf) ==
    LET new_wi == Reflect(wo, wh) IN
    IF ~SameHemisphere(wo, new_wi)
    THEN [wi |-> new_wi, pdf |-> pdf, ret |-> Zero, sampled |-> FALSE]
    ELSE [wi |-> new_wi, pdf |-> MicroFacetReflection_Pdf(wo, new_wi),
          ret |-> MicroFacetReflection_f(wo, new_wi), sampled |-> TRUE]

MicroFacetRefraction_f(wo, wi) ==
    IF SameHemisphere(wo, wi) THEN Zero
    ELSE IF CosTheta(wi) = 0 \/ CosTheta(wo) = 0 THEN Zero
    ELSE Val("MicroFacetRefraction::f", wo, wi)

MicroFacetRefraction_Pdf(wo, wi) ==
    IF SameHemisphere(wo, wi) THEN Zero
    ELSE Val("MicroFacetRefraction::Pdf", wo, wi)

(***************************************************************************)
(* MicroFacetReflection::f by its factors.  Angles are counted in steps of *)
(* 15 degrees, so that the half vector of two directions of the grid has   *)
(* one; a cosine is 100 times its value.   distribution->D and             *)
(* fresnel->Evaluate are virtual and stay terms in their argument; the     *)
(* visibility terms are computed as fractions num / den.                   *)
(***************************************************************************)
CosTable == <<100, 97, 87, 71, 50, 26, 0>>

\* 100 * cos(k * 15 degrees)
Cos15(k) ==
    LET m == k % 24
        a == IF m <= 12 THEN m ELSE 24 - m
    IN  IF a <= 6 THEN CosTable[a + 1] ELSE 0 - CosTable[12 - a + 1]

Abs(x) == IF x < 0 THEN 0 - x ELSE x

\* AbsCosTheta(w): the normal is direction 3
AbsCosTheta(w) == Abs(Cos15(2 * w + 24 - 6))

\* Normalize(wi + wo) as an angle in steps of 15 degrees; -1 when wi = -wo,
\* where the sum has no direction
HalfVector(wi, wo) ==
    LET d == (2 * wo - 2 * wi + 24) % 24 IN
    IF d = 12 THEN -1
    ELSE IF d < 12 THEN (2 * wi + d \div 2) % 24
    ELSE (2 * wi + 24 - (24 - d) \div 2) % 24

VisTerms ==
    {"VisImplicit", "VisNeumann", "VisKelemen", "VisSchlick", "VisSmithJointApprox",
     "VisCookTorrance"}

\* VisTerm::Vis_Term(NoL, NoV, VoH, NoH) as num / den; VisSchlick and
\* VisSmithJointApprox with roughness = 0.5 (k = 1/8, a = 1/4)
Vis_Term(vis, NoL, NoV, VoH, NoH) ==
    CASE vis = "VisImplicit" -> [num |-> 1, den |-> 4]
      [] vis = "VisNeumann" -> [num |-> 100, den |-> 4 * Max({NoL, NoV})]
      [] vis = "VisKelemen" -> [num |-> 100 * 100, den |-> 4 * VoH * VoH]
      [] vis = "VisSchlick" ->
           LET Vis_SchlickV == 7 * NoV + 100
               Vis_SchlickL == 7 * NoL + 100
           IN  [num |-> 16 * 100 * 100, den |-> Vis_SchlickV * Vis_SchlickL]
      [] vis = "VisSmithJointApprox" ->
           LET Vis_SmithV == NoL * (3 * NoV + 100)
               Vis_SmithL == NoV * (3 * NoL + 100)
           IN  [num |-> 2 * 100 * 100, den |-> Vis_SmithV + Vis_SmithL]
      [] vis = "VisCookTorrance" ->
           [num |-> Min({100 * VoH, 2 * Min({NoH * NoV, NoH * NoL})}),
            den |-> 4 * NoL * NoV * VoH]

NoSpectrum == [kind |-> "0", D |-> 0, F |-> 0, Vis |-> [num |-> 0, den |-> 1]]

\* variant: the cosine of wi folded into f
MicroFacetReflection_f_TimesCosine(vis, wo, wi) ==
    LET NoL == AbsCosTheta(wi)
        NoV == AbsCosTheta(wo)
        wh == HalfVector(wi, wo)
    IN  IF NoL = 0 \/ NoV = 0 THEN NoSpectrum
        ELSE IF wh = -1 THEN [NoSpectrum EXCEPT !.kind = "nan"]
        ELSE LET VoH == Cos15(2 * wi + 24 - wh)
                 NoH == Abs(Cos15(wh + 24 - 6))
                 v == Vis_Term(vis, NoL, NoV, VoH, NoH)
             IN  [kind |-> "R*D*F*Vis", D |-> NoH, F |-> VoH,
                  Vis |-> [num |-> v.num * NoL, den |-> v.den * 100]]

\* R * distribution->D(NoH) * F * visterm->Vis_Term(NoL, NoV, VoH, NoH)
MicroFacetReflection_f_Factors(vis, wo, wi) ==
    LET NoL == AbsCosTheta(wi)
        NoV == AbsCosTheta(wo)
        wh == HalfVector(wi, wo)
    IN  IF NoL = 0 \/ NoV = 0 THEN NoSpectrum
        ELSE IF wh = -1 THEN [NoSpectrum EXCEPT !.kind = "nan"]
        ELSE LET VoH == Cos15(2 * wi + 24 - wh)
                 NoH == Abs(Cos15(wh + 24 - 6))
             IN  [kind |-> "R*D*F*Vis", D |-> NoH, F |-> VoH,
                  Vis |-> Vis_Term(vis, NoL, NoV, VoH, NoH)]

\* Spectrum * float, as the pair of the factors
Scaled(spectrum, c) ==
    IF spectrum.kind = "0" \/ c = 0 THEN [f |-> NoSpectrum, c |-> 0]
    ELSE [f |-> spectrum, c |-> c]

\* checkReciprocity of the unit test: one pair of directions drawn from the
\* whole sphere, f0 and f1 computed for it
checkReciprocity ==
    /\ bx.pc = "reciprocity"
    /\ \E wi \in Dirs, wo \in Dirs :
         bx' = [bx EXCEPT !.pc = "checked", !.wo = wo, !.wi = wi,
                   !.f0 = Scaled(MicroFacetReflection_f_Factors(bx.vis, wo, wi),
                                 AbsCosTheta(wo)),
                   !.f1 = Scaled(MicroFacetReflection_f_Factors(bx.vis, wi, wo),
                                 AbsCosTheta(wi))]
    /\ UNCHANGED bvhVars

\* eta of sample_f as <<numerator, denominator>>; ior = <<eta_in, eta_ext>>
SampleEta(wo, wh, ior) ==
    IF Dot(wo, wh) > 0 THEN <<ior[2], ior[1]>> ELSE <<ior[1], ior[2]>>

\* t = 1 - eta * eta * (1 - coso * coso) < 0, in integers
TotalInnerReflection(wo, wh, ior) ==
    LET eta == SampleEta(wo, wh, ior) IN
    4 * eta[2] * eta[2] < eta[1] * eta[1] * (4 - Dot2x4(wo, wh))

\* the angle of the refracted ray to the axis of wh, for an incident ray k
\* steps off that axis: asin(eta * sin(k * 30)) to the nearest step
SnellSteps(eta, k) ==
    IF k = 0 THEN 0 ELSE IF eta[1] < eta[2] THEN 1 ELSE 2

\* wi = -wo * eta + (eta * coso + factor * sqrt(t)) * wh, to the nearest step
Refract(wo, wh, ior) ==
    LET d == (wo - wh + 12) % 12
        eta == SampleEta(wo, wh, ior)
    IN  IF d \in 0..3 THEN (wh + 6 + SnellSteps(eta, d)) % 12
        ELSE IF d \in 9..11 THEN (wh + 18 - SnellSteps(eta, 12 - d)) % 12
        ELSE IF d \in 4..6 THEN (wh + 12 - SnellSteps(eta, 6 - d)) % 12
        ELSE (wh + SnellSteps(eta, d - 6)) % 12

MicroFacetRefraction_sample_f(wo, wh, ior, wi, pdf) ==
    IF TotalInnerReflection(wo, wh, ior)
    THEN [wi |-> wi, pdf |-> pdf, ret |-> Zero, sampled |-> FALSE]
    ELSE LET new_wi == Refract(wo, wh, ior) IN
         [wi |-> new_wi, pdf |-> MicroFacetRefraction_Pdf(wo, new_wi),
          ret |-> MicroFacetRefraction_f(wo, new_wi), sampled |-> TRUE]

\* LambertTransmission::sample_f: a cosine-weighted direction u, on the side of
\* the surface that wo is not on
LambertTransmission_sample_f(wo, u, pdf) ==
    LET new_wi == IF CosTheta(wo) >= 0 THEN 12 - u ELSE u IN
    [wi |-> new_wi, pdf |-> Val("LambertTransmission::pdf", wo, new_wi),
     ret |-> Val("LambertTransmission::f", wo, new_wi), sampled |-> TRUE]

(***************************************************************************)
(* DisneyBRDF.  The parameters are p.x / ParamSteps; basecolor is a grey   *)
(* of that intensity, so Ctint is white and specularTint has no effect.    *)
(* The weights are the code's, times 25 * ParamSteps^4, which makes them   *)
(* integers: min_specular_amount = SchlickR0FromEta(1 / 1.5) = 1 / 25.     *)
(***************************************************************************)
clearcoat_weight(p) == p.clearcoat * ParamSteps * ParamSteps * ParamSteps

\* Cspec0.GetIntensity() times 25 * ParamSteps^2
Cspec0(p) == p.specular * (ParamSteps - p.metallic) + 25 * p.basecolor * p.metallic

specular_reflection_weight(p) == Cspec0(p) * p.metallic * ParamSteps

specular_transmission_weight(p) ==
    25 * p.basecolor * (ParamSteps - p.metallic) * p.specTrans * ParamSteps

diffuse_reflection_weight(p) ==
    25 * p.basecolor * (ParamSteps - p.metallic) * (ParamSteps - p.specTrans)
       * (IF p.thinSurface THEN ParamSteps - p.diffTrans ELSE ParamSteps)

diffuse_transmission_weight(p) ==
    IF p.thinSurface
    THEN 25 * p.basecolor * (ParamSteps - p.metallic) * (ParamSteps - p.specTrans)
            * p.diffTrans
    ELSE 0

total_weight(p) ==
    clearcoat_weight(p) + specular_reflection_weight(p) + specular_transmission_weight(p)
    + diffuse_reflection_weight(p) + diffuse_transmission_weight(p)

\* cc_w, sr_w, st_w, dr_w, times total_weight
cc_w(p) == clearcoat_weight(p)
sr_w(p) == specular_reflection_weight(p) + cc_w(p)
st_w(p) == specular_transmission_weight(p) + sr_w(p)
dr_w(p) == diffuse_reflection_weight(p) + st_w(p)

\* the if / else-if chain on r = rn / RandSteps
ChosenLobe(p, rn) ==
    IF rn * total_weight(p) <= cc_w(p) * RandSteps THEN "clearcoat"
    ELSE IF rn * total_weight(p) <= sr_w(p) * RandSteps THEN "specular_reflection"
    ELSE IF rn * total_weight(p) <= st_w(p) * RandSteps THEN "specular_transmission"
    ELSE IF rn * total_weight(p) <= dr_w(p) * RandSteps THEN "diffuse_reflection"
    ELSE "diffuse_transmission"

LobeWeight(p, lobe) ==
    CASE lobe = "clearcoat" -> clearcoat_weight(p)
      [] lobe = "specular_reflection" -> specular_reflection_weight(p)
      [] lobe = "specular_transmission" -> specular_transmission_weight(p)
      [] lobe = "diffuse_reflection" -> diffuse_reflection_weight(p)
      [] lobe = "diffuse_transmission" -> diffuse_transmission_weight(p)

DisneyBRDF_f(wo, wi) == Val("DisneyBRDF::f", wo, wi)

DisneyBRDF_pdf(wo, wi) == Val("DisneyBRDF::pdf", wo, wi)

\* DisneyBRDF::pdf in full: what each lobe adds to total_pdf, and the total
\* weight that divides the sum
Lobes ==
    {"clearcoat", "specular_reflection", "specular_transmission", "diffuse_reflection",
     "diffuse_transmission"}

\* the pdf of one lobe for the pair (wo, wi), as DisneyBRDF::pdf evaluates it
LobePdf(lobe, wo, wi) ==
    CASE lobe = "clearcoat" -> Val("ClearcoatGGX::Pdf", wo, wi)
      [] lobe = "specular_reflection" -> Val("GGX::Pdf", wo, wi)
      [] lobe = "specular_transmission" -> MicroFacetRefraction_Pdf(wo, wi)
      [] lobe = "diffuse_reflection" -> Val("CosHemispherePdf", 0, wi)
      [] lobe = "diffuse_transmission" -> Val("LambertTransmission::pdf", wo, wi)

\* variant: the clearcoat weight of pdf without its factor 0.04
pdf_weight_ClearcoatUnscaled(p, lobe) ==
    IF lobe = "clearcoat" THEN 25 * LobeWeight(p, lobe) ELSE LobeWeight(p, lobe)

\* the five weights that DisneyBRDF::pdf computes for itself
pdf_weight(p, lobe) == LobeWeight(p, lobe)

pdf_total_weight(p) ==
    pdf_weight(p, "clearcoat") + pdf_weight(p, "specular_reflection")
    + pdf_weight(p, "specular_transmission") + pdf_weight(p, "diffuse_reflection")
    + pdf_weight(p, "diffuse_transmission")

NoTerm == [weight |-> 0, pdf |-> Zero]

NoMixture == [total_pdf |-> [l \in Lobes |-> NoTerm], total_weight |-> 0]

\* total_pdf += weight * lobe pdf, for the lobes of positive weight only;
\* return total_pdf / total_weight
DisneyBRDF_pdf_mixture(p, wo, wi) ==
    [total_pdf |-> [l \in Lobes |->
                      IF pdf_weight(p, l) > 0
                      THEN [weight |-> pdf_weight(p, l), pdf |-> LobePdf(l, wo, wi)]
                      ELSE NoTerm],
     total_weight |-> pdf_total_weight(p)]

\* variant: the pdf the chosen lobe wrote is left in place
pPdf_AsTheLobeLeftIt(lobe_pdf, wo, wi) == lobe_pdf

\* if (pPdf) *pPdf = pdf(wo, wi), over what the chosen lobe left there
pPdf_Written(lobe_pdf, wo, wi) == DisneyBRDF_pdf(wo, wi)

\* what the chosen lobe does to the caller's wi and pdf; u: the sampled normal
\* or the sampled cosine-weighted direction
SampleLobe(lobe, wo, u, ior, wi, pdf) ==
    CASE lobe \in {"clearcoat", "specular_reflection"} ->
           [wi |-> Reflect(wo, u), pdf |-> pdf, sampled |-> TRUE]
      [] lobe = "specular_transmission" ->
           LET r == MicroFacetRefraction_sample_f(wo, u, ior, wi, pdf) IN
           [wi |-> r.wi, pdf |-> r.pdf, sampled |-> r.sampled]
      [] lobe = "diffuse_reflection" ->
           [wi |-> u, pdf |-> pdf, sampled |-> TRUE]
      [] lobe = "diffuse_transmission" ->
           LET r == LambertTransmission_sample_f(wo, u, pdf) IN
           [wi |-> r.wi, pdf |-> r.pdf, sampled |-> r.sampled]

DisneyBRDF_sample_f(p, wo, rn, u, ior, wi, pdf) ==
    IF total_weight(p) <= 0
    THEN [wi |-> wi, pdf |-> Zero, ret |-> Zero, sampled |-> FALSE, lobe |-> "none",
          mix |-> NoMixture]
    ELSE LET lobe == ChosenLobe(p, rn)
             l == SampleLobe(lobe, wo, u, ior, wi, pdf)
         IN  [wi |-> l.wi, pdf |-> pPdf_Written(l.pdf, wo, l.wi),
              ret |-> DisneyBRDF_f(wo, l.wi), sampled |-> l.sampled, lobe |-> lobe,
              mix |-> DisneyBRDF_pdf_mixture(p, wo, l.wi)]

\* the three calls: bx holds the object, wo and the caller's wi and pdf
Sample_MicroFacetReflection ==
    /\ bx.pc = "called" /\ bx.bxdf = "MicroFacetReflection"
    /\ \E wh \in UpperDirs :
         LET r == MicroFacetReflection_sample_f(bx.wo, wh, bx.wi, bx.pdf) IN
         bx' = [bx EXCEPT !.pc = "returned", !.wh = wh, !.wi = r.wi, !.pdf = r.pdf,
                          !.ret = r.ret, !.sampled = r.sampled]
    /\ UNCHANGED bvhVars

Sample_MicroFacetRefraction ==
    /\ bx.pc = "called" /\ bx.bxdf = "MicroFacetRefraction"
    /\ \E wh \in UpperDirs :
         LET r == MicroFacetRefraction_sample_f(bx.wo, wh, bx.ior, bx.wi, bx.pdf) IN
         bx' = [bx EXCEPT !.pc = "returned", !.wh = wh, !.wi = r.wi, !.pdf = r.pdf,
                          !.ret = r.ret, !.sampled = r.sampled]
    /\ UNCHANGED bvhVars

Sample_DisneyBRDF ==
    /\ bx.pc = "called" /\ bx.bxdf = "DisneyBRDF"
    /\ \E rn \in 0..(RandSteps - 1), u \in UpperDirs :
         LET r == DisneyBRDF_sample_f(bx.p, bx.wo, rn, u, bx.ior, bx.wi, bx.pdf) IN
         bx' = [bx EXCEPT !.pc = "returned", !.wh = u, !.r = rn, !.wi = r.wi,
                          !.pdf = r.pdf, !.ret = r.ret, !.sampled = r.sampled,
                          !.lobe = r.lobe, !.mix = r.mix]
    /\ UNCHANGED bvhVars

(***************************************************************************)
(* Scenes and specifications                                               *)
(***************************************************************************)
\* a primitive as the ray sees it: behind the origin, or at distance 1..MaxT
\* and hit (solid) or missed inside its box
RayViews ==
    {[pos |-> -1, solid |-> FALSE, mat |-> "skin"]}
    \cup {[pos |-> p, solid |-> s, mat |-> "skin"] : p \in 1..MaxT, s \in BOOLEAN}

BxIdle == [pc |-> "none"]

InitScene(N, Views, Fns, Ims, Bags) ==
    /\ impl \in Ims
    /\ fn \in Fns
    /\ \E n \in 0..N :
         /\ pri \in [1..n -> Views]
         /\ m_root \in Build(n, ChildCnt(impl))
    /\ m_depth = LeafDepth(m_root, 1)
    /\ matID = "skin"
    /\ pc = "idle"
    /\ bvh_stack = <<>>
    /\ bvh_stack_cap = [f \in {"GetIntersect", "IsOccluded", "GetIntersectSSS"} |-> 0]
    /\ intersect = Intersection_Reset
    /\ bag \in Bags
    /\ ret = FALSE
    /\ bx = BxIdle
    /\ thread = <<>>
    /\ tls = <<>>
    /\ stats = StatsIdle /\ build = BuildIdle

InitNearest == InitScene(NumPrims, RayViews, {"GetIntersect"}, Impls, {BagReset})

NextNearest == GetIntersect_Begin \/ GetIntersect_Loop \/ GetIntersect_Return

SpecNearest == InitNearest /\ [][NextNearest]_vars

\* nearest hit again, over the scenes of NumTraversalPrims primitives
InitTraversal == InitScene(NumTraversalPrims, RayViews, {"GetIntersect"}, Impls, {BagReset})

SpecTraversal == InitTraversal /\ [][NextNearest]_vars

\* the three queries over scenes whose primitives lie behind the ray or ahead
\* of it, their boxes entered and the primitives missed: every box ahead is visited
LaneViews ==
    {[pos |-> -1, solid |-> FALSE, mat |-> "skin"],
     [pos |-> 1, solid |-> FALSE, mat |-> "skin"]}

InitLanes == InitScene(NumPrims, LaneViews, QueryFns, Impls, {BagReset})

NextLanes ==
    \/ GetIntersect_Begin \/ GetIntersect_Loop \/ GetIntersect_Return
    \/ IsOccluded_Begin \/ IsOccluded_Loop \/ IsOccluded_Return
    \/ GetIntersectSSS_Begin \/ GetIntersectSSS_Loop \/ GetIntersectSSS_Return

SpecLanes == InitLanes /\ [][NextLanes]_vars

\* the three queries over scenes whose primitives are ahead of the ray, missed
\* or hit: every box is entered
QueryViews ==
    {[pos |-> 1, solid |-> FALSE, mat |-> "skin"], [pos |-> 1, solid |-> TRUE, mat |-> "skin"]}

InitAllQueries == InitScene(NumPrims, QueryViews, QueryFns, Impls, {BagReset})

SpecAllQueries == InitAllQueries /\ [][NextLanes]_vars

InitOccluded == InitScene(NumPrims, RayViews, {"IsOccluded"}, Impls, {BagReset})

NextOccluded == IsOccluded_Begin \/ IsOccluded_Loop \/ IsOccluded_Return

SpecOccluded == InitOccluded /\ [][NextOccluded]_vars

\* multi-hit scenes: primitives of the requested material and of another one
SSSViews ==
    {[pos |-> -1, solid |-> FALSE, mat |-> "skin"]}
    \cup {[pos |-> p, solid |-> TRUE, mat |-> m] : p \in 1..MaxT, m \in MatIDs}
    \cup {[pos |-> 1, solid |-> FALSE, mat |-> "skin"]}

\* The leaf test of the SIMD builds, intersectTriangleMulti_SIMD, is outside the
\* sources: the multi-hit specification runs the scalar build.
\* The caller's bag is fresh or still holds a hit of an earlier query.
UsedBag == [cnt |-> 1, intersections |-> <<[t |-> 1, primitive |-> 1]>>, maxt |-> 1]

InitMulti ==
    InitScene(NumSSSPrims, SSSViews, {"GetIntersectSSS"}, {"scalar"}, {BagReset, UsedBag})

NextMulti == GetIntersectSSS_Begin \/ GetIntersectSSS_Loop \/ GetIntersectSSS_Return

SpecMulti == InitMulti /\ [][NextMulti]_vars

\* the three queries with the record and the bag as the caller hands them in:
\* fresh, or holding the hit of an earlier query
UsedRecord == [t |-> 1, primitive |-> 1]

\* primitives behind the ray, and primitives ahead of it that it hits or misses
MissViews ==
    {[pos |-> -1, solid |-> FALSE, mat |-> "skin"],
     [pos |-> 1, solid |-> TRUE, mat |-> "skin"],
     [pos |-> 1, solid |-> FALSE, mat |-> "skin"]}

InitMiss ==
    /\ impl \in Impls
    /\ fn \in QueryFns
    /\ \E n \in 0..NumTraversalPrims :
         /\ pri \in [1..n -> MissViews]
         /\ m_root \in Build(n, ChildCnt(impl))
    /\ m_depth = LeafDepth(m_root, 1)
    /\ matID = "skin"
    /\ pc = "idle"
    /\ bvh_stack = <<>>
    /\ bvh_stack_cap = [f \in QueryFns |-> 0]
    /\ intersect \in {Intersection_Reset, UsedRecord}
    /\ bag \in {BagReset, UsedBag}
    /\ ret \in BOOLEAN
    /\ bx = BxIdle
    /\ thread = <<>>
    /\ tls = <<>>
    /\ stats = StatsIdle /\ build = BuildIdle

SpecMiss == InitMiss /\ [][NextLanes]_vars

\* stack scenes: every primitive lies ahead of the ray, which pierces every box
StackViews == {[pos |-> 1, solid |-> FALSE, mat |-> "skin"]}

\* Another accelerator is built on the thread that has finished a query (one
\* Fbvh per scene, the static thread_local stacks outlive it); m_depth of the
\* new instance comes from its own leaves.
Fbvh_Build ==
    /\ pc = "done"
    /\ \E n \in 0..NumStackPrims :
         /\ pri' \in [1..n -> StackViews]
         /\ m_root' \in Build(n, FBVH_CHILD_CNT)
    /\ m_depth' = LeafDepth(m_root', 1)
    /\ pc' = "idle"
    /\ bvh_stack' = <<>>
    /\ UNCHANGED <<impl, matID, fn, bvh_stack_cap, intersect, bag, ret, bx, thread, tls, stats, build>>

\* bvh_stack[si++] = ... past the end of the array is undefined behaviour: the
\* query may go on (the loop actions stay enabled) or the process may stop here
StackOverflow ==
    /\ pc = "loop"
    /\ Len(bvh_stack) > bvh_stack_cap[fn]
    /\ pc' = "crashed"
    /\ UNCHANGED <<impl, pri, m_root, m_depth, matID, fn, bvh_stack, bvh_stack_cap,
                   intersect, bag, ret, bx, thread, tls, stats, build>>

InitStack ==
    InitScene(NumStackPrims, StackViews, {"GetIntersect", "IsOccluded", "GetIntersectSSS"},
              Impls, {BagReset})

NextStack ==
    \/ GetIntersect_Begin \/ GetIntersect_Loop \/ GetIntersect_Return
    \/ IsOccluded_Begin \/ IsOccluded_Loop \/ IsOccluded_Return
    \/ GetIntersectSSS_Begin \/ GetIntersectSSS_Loop \/ GetIntersectSSS_Return
    \/ Fbvh_Build
    \/ StackOverflow

SpecStack == InitStack /\ [][NextStack]_vars

DisneyParams ==
    [basecolor : 0..ParamSteps, metallic : 0..ParamSteps, specTrans : 0..ParamSteps,
     diffTrans : 0..ParamSteps, clearcoat : 0..ParamSteps, specular : 0..ParamSteps,
     thinSurface : BOOLEAN]

NoParams ==
    [basecolor |-> 0, metallic |-> 0, specTrans |-> 0, diffTrans |-> 0, clearcoat |-> 0,
     specular |-> 0, thinSurface |-> FALSE]

\* indices of refraction 1.0 and 1.5, in halves, as <<eta_in, eta_ext>>
Iors == {<<3, 2>>, <<2, 3>>}

\* MicroFacetRefraction mr(WHITE_SPECTRUM, &ggx, ior_ex, ior_in, ...): the pair
\* (ieta, eeta) of the constructor receives ior_ex = 1.0 and ior_in = 1.5
DisneyIors == {<<2, 3>>}

\* The caller's wi and pdf are not initialised before the call: they hold
\* anything; a direction of either hemisphere, zero or another number.
CallerWi == {2, 8}
CallerPdf == {Zero, Val("caller", 0, 0)}

InitBxdf ==
    /\ impl = "scalar" /\ fn = "none" /\ pri = <<>> /\ m_root = makeLeaf(0, 0)
    /\ m_depth = 1 /\ matID = "skin" /\ pc = "idle" /\ bvh_stack = <<>>
    /\ bvh_stack_cap = [f \in {"GetIntersect", "IsOccluded", "GetIntersectSSS"} |-> 0]
    /\ intersect = Intersection_Reset /\ bag = BagReset /\ ret = FALSE
    /\ thread = <<>> /\ tls = <<>> /\ stats = StatsIdle /\ build = BuildIdle
    /\ \E bxdf \in {"MicroFacetReflection", "MicroFacetRefraction", "DisneyBRDF"},
          wo \in Dirs, wi \in CallerWi, pdf \in CallerPdf, ior \in Iors,
          p \in DisneyParams :
         /\ bxdf # "DisneyBRDF" => p = NoParams
         /\ bxdf = "DisneyBRDF" => ior \in DisneyIors
         /\ bx = [pc |-> "called", bxdf |-> bxdf, p |-> p, ior |-> ior, wo |-> wo,
                  wi |-> wi, pdf |-> pdf, ret |-> Zero, wh |-> 0, r |-> 0,
                  sampled |-> FALSE, lobe |-> "none", mix |-> NoMixture]

NextBxdf ==
    Sample_MicroFacetReflection \/ Sample_MicroFacetRefraction \/ Sample_DisneyBRDF

SpecBxdf == InitBxdf /\ [][NextBxdf]_vars

\* render threads on one built tree; the ray meets primitives of the requested
\* material only, a near one it misses or a far one it hits
ThreadViews ==
    {[pos |-> 1, solid |-> FALSE, mat |-> "skin"],
     [pos |-> MaxT, solid |-> TRUE, mat |-> "skin"]}

InitThreads ==
    /\ impl \in Impls
    /\ \E n \in 0..NumThreadPrims :
         /\ pri \in [1..n -> ThreadViews]
         /\ m_root \in Build(n, ChildCnt(impl))
    /\ m_depth = LeafDepth(m_root, 1)
    /\ matID = "skin" /\ fn = "none" /\ pc = "idle" /\ bvh_stack = <<>>
    /\ bvh_stack_cap = [f \in {"GetIntersect", "IsOccluded", "GetIntersectSSS"} |-> 0]
    /\ intersect = Intersection_Reset /\ bag = BagReset /\ ret = FALSE
    /\ bx = BxIdle
    /\ thread = [t \in Threads |-> ThreadIdle]
    /\ tls = [k \in Threads \X QueryFns |-> <<>>]
    /\ stats = StatsIdle /\ build = BuildIdle

NextThreads ==
    \E t \in Threads : Thread_Begin(t) \/ Thread_Loop(t) \/ Thread_Return(t)

SpecThreads == InitThreads /\ [][NextThreads]_vars

\* the stats system on the render threads
InitStats ==
    /\ impl = "scalar" /\ fn = "none" /\ pri = <<>> /\ m_root = makeLeaf(0, 0)
    /\ m_depth = 1 /\ matID = "skin" /\ pc = "idle" /\ bvh_stack = <<>>
    /\ bvh_stack_cap = [f \in {"GetIntersect", "IsOccluded", "GetIntersectSSS"} |-> 0]
    /\ intersect = Intersection_Reset /\ bag = BagReset /\ ret = FALSE
    /\ bx = BxIdle /\ thread = <<>> /\ tls = <<>>
    /\ stats = StatsInit /\ build = BuildIdle

NextStats ==
    \E t \in Threads :
        \/ \E i \in StatsItems : StatsItemRegister(t, i)
        \/ FlushStatsData(t)

SpecStats == InitStats /\ [][NextStats]_vars

(***************************************************************************)
(* StatsInt::ToString.  A std::string is the sequence of its characters.   *)
(***************************************************************************)
DigitChars == <<"0", "1", "2", "3", "4", "5", "6", "7", "8", "9">>

\* the decimal digits of n >= 0
RECURSIVE Digits(_)
Digits(n) ==
    IF n < 10 THEN <<DigitChars[n + 1]>>
    ELSE Append(Digits(n \div 10), DigitChars[(n % 10) + 1])

\* std::to_string(long long)
to_string(v) == IF v < 0 THEN <<"-">> \o Digits(-v) ELSE Digits(v)

\* if (i % 3 == 0) --j;
CommaDue(i) == i % 3 = 0

\* while (i < s.size()) { ret[j--] = s[len - (i++)]; if (i % 3 == 0) --j; }
\* with the 0-based i and j of the code; a write outside ret is left out of
\* the string here and shows as a string that does not hold all of s
RECURSIVE ToString_Loop(_, _, _, _)
ToString_Loop(s, str, i, j) ==
    IF i >= Len(s) THEN str
    ELSE LET len == Len(s) - 1
             written == IF j + 1 \in DOMAIN str
                        THEN [str EXCEPT ![j + 1] = s[len - i + 1]] ELSE str
             i1 == i + 1
             j1 == j - 1
         IN  ToString_Loop(s, written, i1, IF CommaDue(i1) THEN j1 - 1 ELSE j1)

StatsInt_ToString(v) ==
    LET s == to_string(v) IN
    IF Len(s) < 5 THEN s
    ELSE LET len == Len(s) - 1
             str == [k \in 1..(len + 1 + len \div 3) |-> ","]
         IN  ToString_Loop(s, str, 0, Len(str) - 1)

\* one call of StatsInt::ToString, on a counter of any value
ToString_Call ==
    /\ stats.pc = "ToString"
    /\ stats' = [stats EXCEPT !.pc = "returned", !.str = StatsInt_ToString(stats.v)]
    /\ UNCHANGED <<impl, pri, m_root, m_depth, matID, fn, pc, bvh_stack, bvh_stack_cap,
                   intersect, bag, ret, bx, thread, tls, build>>

\* the digits a value of the model is written with
DigitChoices == {0, 1, 9}

RECURSIVE FromDigits(_)
FromDigits(ds) ==
    IF ds = <<>> THEN 0 ELSE 10 * FromDigits(SubSeq(ds, 1, Len(ds) - 1)) + ds[Len(ds)]

\* values of the counter: up to MaxDigits digits, of either sign
StatsValues ==
    LET mags == {FromDigits(ds) : ds \in UNION {[1..k -> DigitChoices] : k \in 1..MaxDigits}}
    IN  mags \cup {-m : m \in mags}

InitToString ==
    /\ impl = "scalar" /\ fn = "none" /\ pri = <<>> /\ m_root = makeLeaf(0, 0)
    /\ m_depth = 1 /\ matID = "skin" /\ pc = "idle" /\ bvh_stack = <<>>
    /\ bvh_stack_cap = [f \in {"GetIntersect", "IsOccluded", "GetIntersectSSS"} |-> 0]
    /\ intersect = Intersection_Reset /\ bag = BagReset /\ ret = FALSE
    /\ bx = BxIdle /\ thread = <<>> /\ tls = <<>> /\ build = BuildIdle
    /\ \E v \in StatsValues : stats = [pc |-> "ToString", v |-> v, str |-> <<>>]

NextToString == ToString_Call

SpecToString == InitToString /\ [][NextToString]_vars

\* the reciprocity test of MicroFacetReflection, one object per visibility term
InitReciprocity ==
    /\ impl = "scalar" /\ fn = "none" /\ pri = <<>> /\ m_root = makeLeaf(0, 0)
    /\ m_depth = 1 /\ matID = "skin" /\ pc = "idle" /\ bvh_stack = <<>>
    /\ bvh_stack_cap = [f \in {"GetIntersect", "IsOccluded", "GetIntersectSSS"} |-> 0]
    /\ intersect = Intersection_Reset /\ bag = BagReset /\ ret = FALSE
    /\ thread = <<>> /\ tls = <<>> /\ stats = StatsIdle /\ build = BuildIdle
    /\ \E vis \in VisTerms :
         bx = [pc |-> "reciprocity", bxdf |-> "MicroFacetReflection", vis |-> vis,
               wo |-> 0, wi |-> 0, f0 |-> Scaled(NoSpectrum, 0),
               f1 |-> Scaled(NoSpectrum, 0)]

NextReciprocity == checkReciprocity

SpecReciprocity == InitReciprocity /\ [][NextReciprocity]_vars

\* Build over n primitives, from the root node made in Build
BuildViews == {[pos |-> 1, solid |-> TRUE, mat |-> "skin"]}

InitBuild ==
    /\ impl \in Impls /\ fn = "none"
    /\ \E n \in 0..NumBuildPrims :
         /\ pri \in [1..n -> BuildViews]
         /\ m_root = Fbvh_Node(0, n)
    /\ m_depth = 0 /\ matID = "skin" /\ pc = "idle" /\ bvh_stack = <<>>
    /\ bvh_stack_cap = [f \in {"GetIntersect", "IsOccluded", "GetIntersectSSS"} |-> 0]
    /\ intersect = Intersection_Reset /\ bag = BagReset /\ ret = FALSE
    /\ bx = BxIdle /\ thread = <<>> /\ tls = <<>> /\ stats = StatsIdle
    /\ build = [pc |-> "ret", todo |-> << <<>> >>, path |-> <<>>,
                to_split |-> <<>>, done_splitting |-> <<>>,
                pending |-> <<>>, cur_split |-> <<>>, sah |-> 0, mid |-> 0,
                declined |-> {}, kept |-> {}]

NextBuild ==
    \/ splitNode_Call
    \/ splitNode_Widen
    \/ splitNode_Populate
    \/ Build_Return

SpecBuild == InitBuild /\ [][NextBuild]_vars

\* Build runs to its end without being interrupted: a step that can be taken
\* is taken
InitTermination ==
    /\ InitBuild
    /\ Len(pri) <= NumTerminationPrims

SpecBuildFair == InitTermination /\ [][NextBuild]_vars /\ WF_vars(NextBuild)

\* Build over primitives that differ from one another: the i-th of the input
\* lies at distance i
InputPrimitives(n) == [i \in 1..n |-> [pos |-> i, solid |-> TRUE, mat |-> "skin"]]

InitPartition ==
    /\ impl \in Impls /\ fn = "none"
    /\ \E n \in 0..NumPartitionPrims :
         /\ pri = InputPrimitives(n)
         /\ m_root = Fbvh_Node(0, n)
    /\ m_depth = 0 /\ matID = "skin" /\ pc = "idle" /\ bvh_stack = <<>>
    /\ bvh_stack_cap = [f \in {"GetIntersect", "IsOccluded", "GetIntersectSSS"} |-> 0]
    /\ intersect = Intersection_Reset /\ bag = BagReset /\ ret = FALSE
    /\ bx = BxIdle /\ thread = <<>> /\ tls = <<>> /\ stats = StatsIdle
    /\ build = [pc |-> "ret", todo |-> << <<>> >>, path |-> <<>>,
                to_split |-> <<>>, done_splitting |-> <<>>,
                pending |-> <<>>, cur_split |-> <<>>, sah |-> 0, mid |-> 0,
                declined |-> {}, kept |-> {}]

SpecPartition == InitPartition /\ [][NextBuild]_vars

\* makeLeaf of a SIMD build on a leaf of up to NumLeafPrims primitives of any
\* shape types
InitLeaf ==
    /\ impl \in {"sse", "avx"} /\ fn = "none"
    /\ pri = <<>> /\ m_root = makeLeaf(0, 0)
    /\ m_depth = 1 /\ matID = "skin" /\ pc = "idle" /\ bvh_stack = <<>>
    /\ bvh_stack_cap = [f \in {"GetIntersect", "IsOccluded", "GetIntersectSSS"} |-> 0]
    /\ intersect = Intersection_Reset /\ bag = BagReset /\ ret = FALSE
    /\ bx = BxIdle /\ thread = <<>> /\ tls = <<>> /\ stats = StatsIdle
    /\ \E n \in 0..NumLeafPrims :
         \E shapes \in [1..n -> ShapeTypes] :
           build = [pc |-> "packing", shapes |-> shapes,
                    pri_offset |-> 0, pri_cnt |-> n, i |-> 0,
                    leaf |-> [tri |-> <<>>, line |-> <<>>, tri_list |-> <<>>,
                              line_list |-> <<>>, other_list |-> <<>>]]

NextLeaf == makeLeaf_Loop \/ makeLeaf_Return

SpecLeaf == InitLeaf /\ [][NextLeaf]_vars

\* nearest-hit and any-hit queries side by side
InitQueries ==
    InitScene(NumPrims, RayViews, {"GetIntersect", "IsOccluded"}, Impls, {BagReset})

NextQueries ==
    \/ GetIntersect_Begin \/ GetIntersect_Loop \/ GetIntersect_Return
    \/ IsOccluded_Begin \/ IsOccluded_Loop \/ IsOccluded_Return

SpecQueries == InitQueries /\ [][NextQueries]_vars

(***************************************************************************)
(* Properties of the traversals                                            *)
(***************************************************************************)
\* brute force over all primitives: the hit parameters of the primitives hit
HitTs == {pri[i].pos : i \in {j \in 1..Len(pri) : pri[j].solid /\ pri[j].pos > 0}}

\* C1: a finished nearest-hit query returns true iff the brute-force loop finds
\* an intersected primitive, and on true the recorded t is the smallest hit
\* parameter of all intersected primitives.
C1_NearestHitIsBruteForce ==
    (pc = "done" /\ fn = "GetIntersect") =>
        /\ ret = (HitTs # {})
        /\ ret => intersect.t = Min(HitTs)

\* C2: a finished any-hit query returns true iff the nearest-hit query of the
\* same build on the same tree and ray returns a hit, and it returns false only
\* with the traversal stack empty.
C2_OccludedIffNearestHit ==
    (pc = "done" /\ fn = "IsOccluded") =>
        /\ ret = Fbvh_GetIntersect(impl).ret
        /\ ~ret => bvh_stack = <<>>

\* C3: on the same tree and ray the SSE and AVX code paths finish with the
\* results of the scalar code path: the same answer of the any-hit query, the
\* same answer and the same recorded hit of the nearest-hit query.
C3_SimdMatchesScalar ==
    /\ (pc = "done" /\ fn = "IsOccluded") => ret = Fbvh_IsOccluded("scalar")
    /\ (pc = "done" /\ fn = "GetIntersect") =>
          /\ ret = Fbvh_GetIntersect("scalar").ret
          /\ intersect = Fbvh_GetIntersect("scalar").intersect

\* C4: while a query traverses, its stack index stays within the array that
\* was allocated for its stack, whatever queries the thread ran before.
C4_StackIndexWithinArray ==
    pc = "loop" => Len(bvh_stack) <= bvh_stack_cap[fn]

(***************************************************************************)
(* Properties of the multi-hit bag                                         *)
(***************************************************************************)
\* the largest t among the hits the bag holds
MaxStored(b) == Max({b.intersections[j].t : j \in 1..b.cnt})

\* the query has passed its first statements
InMultiHit == fn = "GetIntersectSSS" /\ pc \in {"loop", "done"}

\* b, full, receives the hit x: one slot that held the largest t now holds x,
\* nothing else moved, and maxt is recomputed
EvictsLargest(b, x) ==
    LET b2 == StoreHit(b, x) IN
    /\ \E j \in 1..b.cnt :
          /\ b.intersections[j].t = MaxStored(b)
          /\ b2.intersections = [b.intersections EXCEPT ![j] = x]
    /\ b2.cnt = b.cnt
    /\ b2.maxt = MaxStored(b2)

\* C5: the multi-hit query empties the bag first, stores only hits on
\* primitives of the requested material, never holds more than
\* TOTAL_SSS_INTERSECTION_CNT hits, and a hit arriving at a full bag replaces
\* the stored hit with the largest t, after which maxt is recomputed.
C5_MultiHitBag ==
    InMultiHit =>
        /\ (bvh_stack = << <<m_root, Intersect(m_bbox)>> >> \/ Intersect(m_bbox) < 0)
              => bag.cnt = 0
        /\ bag.cnt <= TOTAL_SSS_INTERSECTION_CNT
        /\ Len(bag.intersections) = bag.cnt
        /\ \A j \in 1..bag.cnt : pri[bag.intersections[j].primitive].mat = matID
        /\ bag.cnt = TOTAL_SSS_INTERSECTION_CNT =>
              \A i \in 0..(Len(pri) - 1) :
                  LET r == Primitive_GetIntersect(i, Intersection_Reset) IN
                  (pri[i + 1].mat = matID /\ r.hit) => EvictsLargest(bag, r.intersect)

\* a finished query that met more than TOTAL_SSS_INTERSECTION_CNT matching hits
C5_Witness ==
    /\ InMultiHit /\ pc = "done"
    /\ bag.cnt = TOTAL_SSS_INTERSECTION_CNT
    /\ bag.maxt < FLT_MAX
    /\ Cardinality({i \in 1..Len(pri) : pri[i].solid /\ pri[i].pos > 0
                                        /\ pri[i].mat = matID})
         > TOTAL_SSS_INTERSECTION_CNT

\* C6 as stated: whenever the bag holds a hit, maxt is the largest stored t.
C6_MaxtIsMaxStored ==
    (InMultiHit /\ bag.cnt >= 1) => bag.maxt = MaxStored(bag)

\* C6 as the code has it: maxt stays FLT_MAX while hits are appended, and it
\* is the largest stored t from the first replacement in a full bag onwards.
C6_MaxtAfterEviction ==
    /\ [](InMultiHit =>
            /\ bag.cnt < TOTAL_SSS_INTERSECTION_CNT => bag.maxt = FLT_MAX
            /\ bag.cnt >= 1 => (bag.maxt = FLT_MAX \/ bag.maxt = MaxStored(bag)))
    /\ [][(InMultiHit /\ bag.cnt = TOTAL_SSS_INTERSECTION_CNT /\ bag' # bag)
            => bag'.maxt = MaxStored(bag')]_vars

\* the traversal has appended a hit, and later replaced one
C6_Witness ==
    /\ InMultiHit /\ pc = "loop"
    /\ bag.cnt = TOTAL_SSS_INTERSECTION_CNT
    /\ bag.maxt = MaxStored(bag)

(***************************************************************************)
(* Properties of the BxDF sampling routines                                *)
(***************************************************************************)
\* Pdf(wo, wi) and f(wo, wi) of the object of the call, queried afterwards
PdfOf(b, wo, wi) ==
    CASE b = "MicroFacetReflection" -> MicroFacetReflection_Pdf(wo, wi)
      [] b = "MicroFacetRefraction" -> MicroFacetRefraction_Pdf(wo, wi)
      [] b = "DisneyBRDF" -> DisneyBRDF_pdf(wo, wi)

FOf(b, wo, wi) ==
    CASE b = "MicroFacetReflection" -> MicroFacetReflection_f(wo, wi)
      [] b = "MicroFacetRefraction" -> MicroFacetRefraction_f(wo, wi)
      [] b = "DisneyBRDF" -> DisneyBRDF_f(wo, wi)

\* C7: when sample_f of MicroFacetReflection, MicroFacetRefraction or
\* DisneyBRDF has produced a direction wi, the pdf it wrote is Pdf(wo, wi) for
\* that wi and the spectrum it returned is f(wo, wi).
C7_SampledPdfAndValue ==
    (bx.pc = "returned" /\ bx.sampled) =>
        /\ bx.pdf = PdfOf(bx.bxdf, bx.wo, bx.wi)
        /\ bx.ret = FOf(bx.bxdf, bx.wo, bx.wi)

\* DisneyBRDF has sampled its transmission lobe, whose own sample_f wrote a
\* pdf first, and the caller's pdf held something else before the call
C7_Witness ==
    /\ bx.pc = "returned" /\ bx.sampled
    /\ bx.bxdf = "DisneyBRDF" /\ bx.lobe = "specular_transmission"
    /\ bx.pdf \notin CallerPdf
    /\ bx.wi = Refract(bx.wo, bx.wh, bx.ior)

\* C8: when MicroFacetRefraction::sample_f meets total internal reflection,
\* it returns a zero spectrum and the caller's pdf is 0 afterwards.
C8_TotalInnerReflectionPdfZero ==
    (bx.pc = "returned" /\ bx.bxdf = "MicroFacetRefraction"
       /\ TotalInnerReflection(bx.wo, bx.wh, bx.ior)) =>
        /\ bx.ret = Zero
        /\ bx.pdf = Zero

\* C9: when the direction MicroFacetReflection::sample_f reflects wo to is not
\* in the hemisphere of wo, it returns a zero spectrum and the caller's pdf
\* is 0 afterwards.
C9_RejectedSamplePdfZero ==
    (bx.pc = "returned" /\ bx.bxdf = "MicroFacetReflection"
       /\ ~SameHemisphere(bx.wo, Reflect(bx.wo, bx.wh))) =>
        /\ bx.ret = Zero
        /\ bx.pdf = Zero

\* C10: DisneyBRDF::sample_f, when the weights are not all zero, chooses one of
\* the five lobes, never a lobe of weight zero, and never the diffuse
\* transmission lobe when thinSurface is false.
C10_LobeChoice ==
    (bx.pc = "returned" /\ bx.bxdf = "DisneyBRDF" /\ total_weight(bx.p) > 0) =>
        /\ bx.lobe \in {"clearcoat", "specular_reflection", "specular_transmission",
                        "diffuse_reflection", "diffuse_transmission"}
        /\ LobeWeight(bx.p, bx.lobe) > 0
        /\ ~bx.p.thinSurface => bx.lobe # "diffuse_transmission"

(***************************************************************************)
(* C11  The pdf of DisneyBRDF::sample_f and of DisneyBRDF::pdf is the      *)
(* mixture over all lobes: each lobe's pdf for (wo, wi) is weighted by the *)
(* width of the interval of r in which sample_f chooses that lobe, the sum *)
(* is divided by the total weight of sample_f, and nothing in it depends   *)
(* on the lobe that generated wi.  Stated for total_weight > 0, which both *)
(* functions assert.                                                       *)
(***************************************************************************)
\* the width of the interval of r (times total_weight) that selects a lobe
SampledShare(p, lobe) ==
    CASE lobe = "clearcoat" -> cc_w(p)
      [] lobe = "specular_reflection" -> sr_w(p) - cc_w(p)
      [] lobe = "specular_transmission" -> st_w(p) - sr_w(p)
      [] lobe = "diffuse_reflection" -> dr_w(p) - st_w(p)
      [] lobe = "diffuse_transmission" -> total_weight(p) - dr_w(p)

C11_MixturePdf ==
    (bx.pc = "returned" /\ bx.bxdf = "DisneyBRDF" /\ total_weight(bx.p) > 0) =>
        /\ bx.pdf = DisneyBRDF_pdf(bx.wo, bx.wi)
        /\ bx.mix.total_weight = total_weight(bx.p)
        /\ \A l \in Lobes :
             bx.mix.total_pdf[l] =
                 IF SampledShare(bx.p, l) > 0
                 THEN [weight |-> SampledShare(bx.p, l), pdf |-> LobePdf(l, bx.wo, bx.wi)]
                 ELSE NoTerm

\* a direction of the diffuse lobe whose pdf has a clearcoat term as well
C11_Witness ==
    /\ bx.pc = "returned" /\ bx.bxdf = "DisneyBRDF"
    /\ bx.lobe = "diffuse_reflection"
    /\ bx.mix.total_pdf["clearcoat"].weight > 0
    /\ bx.mix.total_pdf["diffuse_reflection"].weight > 0

(***************************************************************************)
(* C12  The accelerator is read-only during rendering.  No step of a       *)
(* nearest-hit, any-hit or multi-hit query changes the tree, the primitive *)
(* array or m_depth, and however the queries of several threads on the     *)
(* one built tree interleave, a finished query holds the result the same   *)
(* query gives when it runs alone.                                         *)
(***************************************************************************)
\* what the query f returns and leaves in its caller's records, run alone
RunAlone(f) ==
    CASE f = "GetIntersect" ->
           [intersect |-> Fbvh_GetIntersect(impl).intersect, bag |-> BagReset,
            ret |-> Fbvh_GetIntersect(impl).ret]
      [] f = "IsOccluded" ->
           [intersect |-> Intersection_Reset, bag |-> BagReset,
            ret |-> Fbvh_IsOccluded(impl)]
      [] f = "GetIntersectSSS" ->
           [intersect |-> Intersection_Reset, bag |-> Fbvh_GetIntersectSSS(impl),
            ret |-> FALSE]

ThreadResult(t) ==
    [intersect |-> thread[t].intersect, bag |-> thread[t].bag, ret |-> thread[t].ret]

C12_QueriesReadOnlyAndIndependent ==
    /\ [](\A t \in Threads :
            /\ thread[t].pc # "crashed"
            /\ thread[t].pc = "done" => ThreadResult(t) = RunAlone(thread[t].fn))
    /\ [][m_root' = m_root /\ pri' = pri /\ m_depth' = m_depth]_vars

\* two threads are inside the loop of the same function at the same time, both
\* with entries of an interior root's children on their stacks
C12_Witness ==
    \E t, u \in Threads :
        /\ t # u
        /\ thread[t].pc = "loop" /\ thread[u].pc = "loop"
        /\ thread[t].fn = thread[u].fn
        /\ thread[t].si > 0 /\ thread[u].si > 1
        /\ m_root.child_cnt > 0

(***************************************************************************)
(* C13  Stats items are registered into the container of their thread, and *)
(* FlushStatsData on a thread puts every item registered on that thread    *)
(* into the global summary exactly once: after the first flush the         *)
(* container is marked flushed, and a second flush on the same thread      *)
(* fails the assertion instead of adding the data again.                   *)
(***************************************************************************)
C13_FlushedExactlyOnce ==
    stats.pc # "none" =>
        \A t \in Threads :
            /\ stats.calls[t] > 0 => stats.flushed[t]
            /\ \A i \in StatsItems : stats.summary[<<t, i>>] <= 1

RECURSIVE TreeNodes(_)
TreeNodes(node) ==
    {node} \cup UNION {TreeNodes(node.children[j]) : j \in 1..Len(node.children)}

C15_LeafOrTwoToKChildren ==
    \A node \in TreeNodes(m_root) :
        /\ Len(node.children) = node.child_cnt
        /\ node.child_cnt = 0 \/ (2 <= node.child_cnt /\ node.child_cnt <= FBVH_CHILD_CNT)

\* Build has returned a tree with a node of FBVH_CHILD_CNT children and a
\* node of two children
C15_Witness ==
    /\ build.pc = "built"
    /\ \E node \in TreeNodes(m_root) : node.child_cnt = FBVH_CHILD_CNT
    /\ \E node \in TreeNodes(m_root) : node.child_cnt = 2

\* the steps of Build end in a tree of the operator Build
Build_StepsAgree ==
    build.pc = "built" => /\ m_root \in Build(Len(pri), FBVH_CHILD_CNT)
                          /\ m_depth = LeafDepth(m_root, 1)

(***************************************************************************)
(* C16.  Leaves of the built tree.  As stated: no node is deeper than      *)
(* max_node_depth, and every leaf has pri_cnt <= max_pri_in_leaf, or lies  *)
(* at depth max_node_depth, or is a node the SAH declined to split         *)
(* (sah >= prim_cnt).  The code makes a fourth kind of leaf: the SAH took  *)
(* a split and std::partition left every primitive on one side of it.      *)
(***************************************************************************)
RECURSIVE TreePaths(_)
TreePaths(node) ==
    {<<>>} \cup UNION {{<<j>> \o q : q \in TreePaths(node.children[j])}
                       : j \in 1..Len(node.children)}

NodeRange(node) == <<node.pri_offset, node.pri_offset + node.pri_cnt>>

IsSmallOrDeep(node, path) ==
    node.pri_cnt <= m_maxPriInLeaf \/ Len(path) + 1 = m_maxNodeDepth

\* the statement of the claim: three kinds of leaf
C16_LeafOfThreeKinds ==
    build.pc = "built" =>
        \A path \in TreePaths(m_root) :
            LET node == GetNode(m_root, path) IN
            /\ Len(path) + 1 <= m_maxNodeDepth
            /\ node.child_cnt = 0 =>
                   \/ IsSmallOrDeep(node, path)
                   \/ <<path, NodeRange(node)>> \in build.declined

\* C16 with the fourth kind: a leaf is small, or at the depth limit, or
\* declined by the SAH, or left whole by std::partition; and these are the
\* nodes that become leaves
C16_LeafOfFourKinds ==
    build.pc = "built" =>
        \A path \in TreePaths(m_root) :
            LET node == GetNode(m_root, path) IN
            /\ Len(path) + 1 <= m_maxNodeDepth
            /\ node.child_cnt = 0 <=>
                   \/ IsSmallOrDeep(node, path)
                   \/ <<path, NodeRange(node)>> \in build.declined
                   \/ <<path, NodeRange(node)>> \in build.kept

\* a built tree with a leaf the SAH declined and a leaf std::partition left
\* whole, both above the depth limit and with more than max_pri_in_leaf primitives
C16_Witness ==
    /\ build.pc = "built"
    /\ \E p3, p4 \in TreePaths(m_root) :
         /\ GetNode(m_root, p3).child_cnt = 0
         /\ ~IsSmallOrDeep(GetNode(m_root, p3), p3)
         /\ <<p3, NodeRange(GetNode(m_root, p3))>> \in build.declined
         /\ GetNode(m_root, p4).child_cnt = 0
         /\ ~IsSmallOrDeep(GetNode(m_root, p4), p4)
         /\ <<p4, NodeRange(GetNode(m_root, p4))>> \in build.kept
         /\ <<p4, NodeRange(GetNode(m_root, p4))>> \notin build.declined

(***************************************************************************)
(* C17.  The widening loop.  As stated: each turn takes a largest pending  *)
(* partition (most primitives among those in to_split), and the loop stops *)
(* when K partitions exist or no pending partition has a beneficial split. *)
(* The code takes to_split.front(), the partition that has waited longest. *)
(***************************************************************************)
RangeSize(r) == r[2] - r[1]

\* build.pending is to_split before the last turn, build.cur_split the
\* partition that turn took
C17_TakesLargestPending ==
    (build.pc = "widen" /\ build.cur_split # <<>>) =>
        \A j \in 1..Len(build.pending) :
            RangeSize(build.cur_split) >= RangeSize(build.pending[j])

\* C17 as the code has it: each turn takes the front of the queue and leaves
\* the others in their order, the halves of a split going to the back; when
\* the loop stops there are FBVH_CHILD_CNT partitions, or none is pending and
\* each partition was declined by the SAH or left whole by std::partition
C17_TakesFrontOfQueue ==
    build.pc = "widen" =>
        /\ build.cur_split # <<>> =>
             /\ build.cur_split = Head(build.pending)
             /\ Len(build.to_split) >= Len(build.pending) - 1
             /\ SubSeq(build.to_split, 1, Len(build.pending) - 1) = Tail(build.pending)
        /\ ~WidenGoesOn(build.to_split, build.done_splitting) =>
             \/ Len(build.to_split) + Len(build.done_splitting) = FBVH_CHILD_CNT
             \/ /\ build.to_split = <<>>
                /\ \A j \in 1..Len(build.done_splitting) :
                     <<build.path, build.done_splitting[j]>> \in build.declined \cup build.kept

\* a turn has taken a partition while a larger one was pending
C17_Witness ==
    /\ build.pc = "widen" /\ build.cur_split # <<>>
    /\ build.cur_split = Head(build.pending)
    /\ \E j \in 2..Len(build.pending) :
         RangeSize(build.pending[j]) > RangeSize(build.cur_split)

(***************************************************************************)
(* C18.  A pending partition of N primitives with sah >= N is not split:   *)
(* the turn moves it, unchanged, from to_split to the back of              *)
(* done_splitting, and in the built tree the node it belonged to is a leaf *)
(* of that range or has exactly one child of that range.                   *)
(***************************************************************************)
C18_DeclinedPartitionKept ==
    /\ (build.pc = "widen" /\ build.cur_split # <<>>
          /\ build.sah >= RangeSize(build.cur_split)) =>
            /\ build.to_split = Tail(build.pending)
            /\ build.done_splitting # <<>>
            /\ build.done_splitting[Len(build.done_splitting)] = build.cur_split
    /\ build.pc = "widen" =>
         \A d \in build.declined :
            d[1] = build.path =>
                \E j \in 1..Len(build.done_splitting) : build.done_splitting[j] = d[2]
    /\ build.pc = "built" =>
         \A d \in build.declined :
            LET node == GetNode(m_root, d[1]) IN
            \/ node.child_cnt = 0 /\ NodeRange(node) = d[2]
            \/ /\ node.child_cnt >= 2
               /\ Cardinality({j \in 1..node.child_cnt :
                                  NodeRange(node.children[j]) = d[2]}) = 1

\* Build has returned; the SAH declined a partition that is now one child of
\* several, and declined a whole node that is now a leaf
C18_Witness ==
    /\ build.pc = "built"
    /\ \E d \in build.declined :
         /\ GetNode(m_root, d[1]).child_cnt >= 2
         /\ RangeSize(d[2]) >= 2
         /\ \E j \in 1..GetNode(m_root, d[1]).child_cnt :
              NodeRange(GetNode(m_root, d[1]).children[j]) = d[2]
    /\ \E d \in build.declined :
         /\ GetNode(m_root, d[1]).child_cnt = 0
         /\ NodeRange(GetNode(m_root, d[1])) = d[2]

(***************************************************************************)
(* C19.  Nearest hit: the entries one interior node pushes are in          *)
(* farthest-first order.  When an iteration of the loop takes an interior  *)
(* node that is not pruned, the stack below it stays as it was and the     *)
(* entries put on top have non-increasing t_entry from the first pushed to *)
(* the last, so the nearest is popped first; in the one-hit, two-hit and   *)
(* generic paths of the SIMD builds and in the scalar build.               *)
(***************************************************************************)
C19_PushedFarthestFirst ==
    [][(/\ pc = "loop" /\ fn = "GetIntersect" /\ bvh_stack # <<>>
        /\ Top(bvh_stack)[1].child_cnt > 0
        /\ ~(intersect.t < Top(bvh_stack)[2])
        /\ bvh_stack' # bvh_stack)
       => LET base == Len(bvh_stack) - 1 IN
          /\ Len(bvh_stack') >= base
          /\ SubSeq(bvh_stack', 1, base) = Pop(bvh_stack)
          /\ \A a, b \in (base + 1)..Len(bvh_stack') :
                a < b => bvh_stack'[a][2] >= bvh_stack'[b][2]
          /\ \A a \in (base + 1)..Len(bvh_stack') :
                \E j \in 0..(Top(bvh_stack)[1].child_cnt - 1) :
                    bvh_stack'[a][1] = Child(Top(bvh_stack)[1], j)]_vars

\* the root has pushed three children or more at different distances (generic
\* path of a SIMD build), the farthest at the bottom
C19_Witness ==
    /\ pc = "loop" /\ fn = "GetIntersect" /\ impl # "scalar"
    /\ m_root.child_cnt >= 3
    /\ Len(bvh_stack) >= 3
    /\ \A a \in 1..Len(bvh_stack) :
          \E j \in 0..(m_root.child_cnt - 1) : bvh_stack[a][1] = Child(m_root, j)
    /\ bvh_stack[1][2] > bvh_stack[Len(bvh_stack)][2]

(***************************************************************************)
(* C20.  Nearest hit: a popped entry (node, t_entry) is pruned exactly     *)
(* when intersect.t < t_entry.  A pruned entry is dropped with the record  *)
(* untouched, and no primitive under its node is hit closer than the hit   *)
(* recorded; an entry with t_entry <= intersect.t is processed: a leaf has *)
(* its primitives tested, an interior node pushes its children ahead of    *)
(* the ray.                                                                *)
(***************************************************************************)
NodeHits(node) ==
    {pri[i].pos : i \in {k \in (node.pri_offset + 1)..(node.pri_offset + node.pri_cnt) :
                            pri[k].solid /\ pri[k].pos > 0}}

C20_PrunedIffCloserHit ==
    /\ [](\A a \in 1..Len(bvh_stack) :
             (pc = "loop" /\ intersect.t < bvh_stack[a][2]) =>
                 \A t \in NodeHits(bvh_stack[a][1]) : t > intersect.t)
    /\ [][(pc = "loop" /\ bvh_stack # <<>> /\ bvh_stack' # bvh_stack) =>
            LET node == Top(bvh_stack)[1]
                t_entry == Top(bvh_stack)[2]
                base == Len(bvh_stack) - 1
            IN  IF intersect.t < t_entry
                THEN bvh_stack' = Pop(bvh_stack) /\ intersect' = intersect
                ELSE IF node.child_cnt = 0
                THEN /\ bvh_stack' = Pop(bvh_stack)
                     /\ intersect'.t = Min({intersect.t} \cup NodeHits(node))
                ELSE /\ intersect' = intersect
                     /\ \A j \in 0..(node.child_cnt - 1) :
                          LET f == Intersect(calcBoundingBox(Child(node, j), pri)) IN
                          f > 0 => \E a \in (base + 1)..Len(bvh_stack') :
                                      bvh_stack'[a] = <<Child(node, j), f>>]_vars

\* a hit is recorded and the entry on top of the stack lies beyond it, with a
\* primitive under its node that the ray would hit
C20_Witness ==
    /\ pc = "loop" /\ bvh_stack # <<>>
    /\ intersect.primitive # 0
    /\ intersect.t < Top(bvh_stack)[2]
    /\ NodeHits(Top(bvh_stack)[1]) # {}

(***************************************************************************)
(* C21.  The lanes of a packed box that have no child fail the box test,   *)
(* so no query of the SSE and AVX builds (nor of the scalar build) puts a  *)
(* null child, a child index >= child_cnt, on the stack: every entry of    *)
(* the stack is a node of the tree.                                        *)
(***************************************************************************)
StackNode(entry) == IF fn = "IsOccluded" THEN entry ELSE entry[1]

C21_NoNullChildPushed ==
    /\ \A node \in TreeNodes(m_root) :
          \A k \in IntersectBBox_SIMD(impl, node).mask : k < node.child_cnt
    /\ \A a \in 1..Len(bvh_stack) :
          /\ StackNode(bvh_stack[a]) # NullNode
          /\ StackNode(bvh_stack[a]) \in TreeNodes(m_root)

\* a SIMD query has pushed the children of a root with fewer children than
\* lanes, all of them hit
C21_Witness ==
    /\ pc = "loop" /\ impl # "scalar"
    /\ m_root.child_cnt >= 2 /\ m_root.child_cnt < FBVH_CHILD_CNT
    /\ Len(bvh_stack) = m_root.child_cnt
    /\ \A a \in 1..Len(bvh_stack) :
          \E j \in 0..(m_root.child_cnt - 1) : StackNode(bvh_stack[a]) = Child(m_root, j)

(***************************************************************************)
(* C22.  A leaf finalised under a SIMD build keeps every primitive of      *)
(* [pri_offset, pri_offset + pri_cnt) in exactly one place: a triangle in  *)
(* one slot of one batch of tri_list, a line in one slot of one batch of   *)
(* line_list, any other primitive once in other_list; nothing else is      *)
(* stored, and every batch but the last of its list is full.               *)
(***************************************************************************)
\* the places where primitive i is stored: <<list, batch, slot>>
PlacesOf(leaf, i) ==
    {q \in {"tri_list"} \X (1..NumLeafPrims + 1) \X (1..SimdWidth(impl)) :
                /\ q[2] <= Len(leaf.tri_list)
                /\ q[3] <= Len(leaf.tri_list[q[2]])
                /\ leaf.tri_list[q[2]][q[3]] = i}
    \cup {q \in {"line_list"} \X (1..NumLeafPrims + 1) \X (1..SimdWidth(impl)) :
                /\ q[2] <= Len(leaf.line_list)
                /\ q[3] <= Len(leaf.line_list[q[2]])
                /\ leaf.line_list[q[2]][q[3]] = i}
    \cup {q \in {"other_list"} \X (1..NumLeafPrims + 1) \X {1} :
                /\ q[2] <= Len(leaf.other_list)
                /\ leaf.other_list[q[2]] = i}

ListOf(shape_type) ==
    IF shape_type = "SHAPE_TRIANGLE" THEN "tri_list"
    ELSE IF shape_type = "SHAPE_LINE" THEN "line_list" ELSE "other_list"

BatchesFull(list) ==
    \A b \in 1..Len(list) :
        /\ Len(list[b]) >= 1 /\ Len(list[b]) <= SimdWidth(impl)
        /\ b < Len(list) => Len(list[b]) = SimdWidth(impl)

C22_LeafPrimitiveStoredOnce ==
    build.pc = "packed" =>
        /\ \A i \in build.pri_offset..(build.pri_offset + build.pri_cnt - 1) :
              /\ Cardinality(PlacesOf(build.leaf, i)) = 1
              /\ \A q \in PlacesOf(build.leaf, i) : q[1] = ListOf(build.shapes[i + 1])
        /\ \A i \in 0..(Len(build.shapes) + 1) :
              (i < build.pri_offset \/ i >= build.pri_offset + build.pri_cnt)
                  => PlacesOf(build.leaf, i) = {}
        /\ BatchesFull(build.leaf.tri_list)
        /\ BatchesFull(build.leaf.line_list)

\* a leaf with a full batch and a padded batch of triangles, a line and
\* a primitive of another shape
C22_Witness ==
    /\ build.pc = "packed"
    /\ Len(build.leaf.tri_list) = 2
    /\ Len(build.leaf.tri_list[2]) < SimdWidth(impl)
    /\ Len(build.leaf.line_list) = 1
    /\ Len(build.leaf.other_list) = 1

(***************************************************************************)
(* C23.  A ray that misses the box of the scene (Intersect returns a       *)
(* negative value): the query returns at once, nothing is put on the       *)
(* stack; nearest hit returns false and leaves the caller's record as it   *)
(* was (a record in the no-hit encoding stays in it), any hit returns      *)
(* false, multi-hit returns the bag with cnt = 0.                          *)
(***************************************************************************)
C23_RootMissReturnsAtOnce ==
    /\ [](Intersect(m_bbox) < 0 => bvh_stack = <<>> /\ pc # "loop")
    /\ [][(pc = "idle" /\ pc' # "idle" /\ Intersect(m_bbox) < 0) =>
            /\ pc' = "done"
            /\ fn = "GetIntersect" => (ret' = FALSE /\ intersect' = intersect)
            /\ fn = "IsOccluded" => ret' = FALSE
            /\ fn = "GetIntersectSSS" => bag'.cnt = 0]_vars

\* nearest hit has returned false on a scene that lies behind the ray, the
\* record still in the no-hit encoding
C23_Witness ==
    /\ pc = "done" /\ fn = "GetIntersect"
    /\ Len(pri) > 0 /\ Intersect(m_bbox) < 0
    /\ ret = FALSE
    /\ intersect.t = FLT_MAX /\ intersect.primitive = 0

(***************************************************************************)
(* C24.  After Build over N primitives the children of every interior node *)
(* have non-empty, pairwise disjoint ranges whose union is the range of    *)
(* the parent, so the ranges of the leaves partition [0, N) and every      *)
(* primitive lies in exactly one leaf; and m_bvhpri, reordered by          *)
(* std::partition, holds the input primitives, each once.                  *)
(***************************************************************************)
RangeSet(node) == (node.pri_offset + 1)..(node.pri_offset + node.pri_cnt)

Leaves(node) == {leaf \in TreeNodes(node) : leaf.child_cnt = 0}

C24_ChildrenPartitionParent ==
    /\ Len(pri) = m_root.pri_cnt /\ m_root.pri_offset = 0
    /\ \A i \in 1..Len(pri) :
          Cardinality({k \in 1..Len(pri) : pri[k] = InputPrimitives(Len(pri))[i]}) = 1
    /\ \A node \in TreeNodes(m_root) :
          node.child_cnt > 0 =>
            /\ \A j \in 1..node.child_cnt : node.children[j].pri_cnt > 0
            /\ \A j, k \in 1..node.child_cnt :
                  j # k => RangeSet(node.children[j]) \cap RangeSet(node.children[k]) = {}
            /\ UNION {RangeSet(node.children[j]) : j \in 1..node.child_cnt} = RangeSet(node)
    /\ build.pc = "built" =>
          \A i \in 1..Len(pri) :
              Cardinality({path \in TreePaths(m_root) :
                              /\ GetNode(m_root, path).child_cnt = 0
                              /\ i \in RangeSet(GetNode(m_root, path))}) = 1

\* Build has returned with the primitives in another order than the input,
\* under a root whose children are a leaf and an interior node
C24_Witness ==
    /\ build.pc = "built"
    /\ pri # InputPrimitives(Len(pri))
    /\ m_root.child_cnt = 2
    /\ \E j, k \in 1..2 : /\ m_root.children[j].child_cnt = 0
                          /\ m_root.children[k].child_cnt = 2

(***************************************************************************)
(* C25.  Nearest hit and any hit: when an iteration of the loop takes an   *)
(* interior node (one that is not pruned), every child whose box the ray   *)
(* hits, a child with t_near = 0 included, is pushed exactly once, and no  *)
(* child is pushed twice.                                                  *)
(***************************************************************************)
TimesPushed(node, j, base) ==
    Cardinality({a \in (base + 1)..Len(bvh_stack') :
                    StackNode(bvh_stack'[a]) = Child(node, j)})

C25_HitChildPushedOnce ==
    [][(/\ pc = "loop" /\ bvh_stack # <<>>
        /\ fn \in {"GetIntersect", "IsOccluded"}
        /\ StackNode(Top(bvh_stack)).child_cnt > 0
        /\ fn = "GetIntersect" => ~(intersect.t < Top(bvh_stack)[2]))
       => LET node == StackNode(Top(bvh_stack))
              base == Len(bvh_stack) - 1
          IN  \A j \in 0..(node.child_cnt - 1) :
                 /\ Intersect(calcBoundingBox(Child(node, j), pri)) >= 0
                       => TimesPushed(node, j, base) = 1
                 /\ TimesPushed(node, j, base) <= 1]_vars

(***************************************************************************)
(* C26.  After a multi-hit query on a ray that hits n primitives of the    *)
(* requested material, the bag holds min(n, TOTAL_SSS_INTERSECTION_CNT)    *)
(* of them, each once, and no hit left out is closer than a hit stored:    *)
(* the bag holds the hits with the smallest t.                             *)
(***************************************************************************)
MatchingHits ==
    {i \in 1..Len(pri) : pri[i].mat = matID /\ pri[i].solid /\ pri[i].pos > 0}

Stored == {bag.intersections[j].primitive : j \in 1..bag.cnt}

C26_BagHoldsNearestHits ==
    (InMultiHit /\ pc = "done") =>
        /\ bag.cnt = Min({Cardinality(MatchingHits), TOTAL_SSS_INTERSECTION_CNT})
        /\ Cardinality(Stored) = bag.cnt
        /\ Stored \subseteq MatchingHits
        /\ \A j \in 1..bag.cnt : bag.intersections[j].t = pri[bag.intersections[j].primitive].pos
        /\ \A i \in MatchingHits \ Stored : \A k \in Stored : pri[k].pos <= pri[i].pos

\* C27: whichever lobe DisneyBRDF::sample_f chooses, that lobe's sampler has
\* assigned wi before pdf(wo, wi) and f(wo, wi) are evaluated on it, the
\* transmission lobe under total internal reflection included.
C27_ChosenLobeAssignsWi ==
    (bx.pc = "returned" /\ bx.bxdf = "DisneyBRDF" /\ total_weight(bx.p) > 0) =>
        /\ bx.sampled
        /\ bx.wi = CASE bx.lobe \in {"clearcoat", "specular_reflection"} ->
                          Reflect(bx.wo, bx.wh)
                     [] bx.lobe = "specular_transmission" ->
                          Refract(bx.wo, bx.wh, bx.ior)
                     [] bx.lobe = "diffuse_reflection" -> bx.wh
                     [] bx.lobe = "diffuse_transmission" ->
                          IF CosTheta(bx.wo) >= 0 THEN 12 - bx.wh ELSE bx.wh

\* C28: Build terminates, for the empty list and for primitives of identical
\* centroids too: every child handed to splitNode has a non-empty range that
\* is strictly smaller than its parent's, and the widening loop of a node
\* splits at most K - 1 times.
SplitsSoFar == Len(build.to_split) + Len(build.done_splitting) - 1

ChildRangesShrink ==
    \A node \in TreeNodes(m_root) : \A j \in 1..Len(node.children) :
        /\ 0 < node.children[j].pri_cnt
        /\ node.children[j].pri_cnt < node.pri_cnt

C28_BuildTerminates ==
    /\ <>(build.pc = "built")
    /\ [](ChildRangesShrink /\ (build.pc = "widen" => SplitsSoFar \in 0..(FBVH_CHILD_CNT - 1)))
    /\ [][build.pc = "widen" /\ build'.pc = "widen" =>
             /\ SplitsSoFar' \in {SplitsSoFar, SplitsSoFar + 1}
             /\ Len(build'.to_split) < Len(build.to_split) \/ SplitsSoFar' = SplitsSoFar + 1]_vars

\* Build has ended on a tree whose root was split K - 1 times, over primitives
\* of one centroid
C28_Witness ==
    /\ build.pc = "built"
    /\ m_root.child_cnt = FBVH_CHILD_CNT

\* C30: StatsInt::ToString(v) is to_string(v) when that has fewer than 5
\* characters; otherwise it is to_string(v) with a comma between every two
\* groups of three digits counted from the right.  For every v, negative or
\* not, the result without its commas is to_string(v), and no comma stands
\* next to the minus sign or at an end of the string.
IsComma(c) == c = ","
NotComma(c) == c # ","

C30_CommasBetweenDigitGroups ==
    stats.pc = "returned" =>
        LET s == to_string(stats.v)
            str == stats.str
            digits == IF stats.v < 0 THEN Len(s) - 1 ELSE Len(s)
        IN  /\ Len(s) < 5 => str = s
            /\ Len(s) >= 5 =>
                 /\ Len(str) = Len(s) + (digits - 1) \div 3
                 /\ \A k \in 1..Len(str) : IsComma(str[Len(str) + 1 - k]) <=> k % 4 = 0
            /\ SelectSeq(str, NotComma) = s
            /\ str # <<>> /\ NotComma(str[1]) /\ NotComma(str[Len(str)])
            /\ \A k \in 1..(Len(str) - 1) :
                 ~(str[k] = "-" /\ IsComma(str[k + 1])) /\ ~(IsComma(str[k]) /\ str[k + 1] = "-")

(***************************************************************************)
(* C29.  Every nearest-hit, any-hit and multi-hit query terminates: a node *)
(* of the tree is pushed at most once in a query, every iteration of the   *)
(* loop pops one entry, and the loop ends with an empty stack or, for      *)
(* any-hit, with the early return of true.                                 *)
(***************************************************************************)
\* levels below a node
RECURSIVE NodeHeight(_)
NodeHeight(node) ==
    IF node.child_cnt = 0 THEN 0
    ELSE 1 + Max({NodeHeight(node.children[j]) : j \in 1..node.child_cnt})

RECURSIVE Power(_, _)
Power(b, e) == IF e = 0 THEN 1 ELSE b * Power(b, e - 1)

\* the work left on the stack: an entry weighs more than all the entries one
\* iteration can push in its place, were each child pushed twice
RECURSIVE StackWeight(_)
StackWeight(stack) ==
    IF stack = <<>> THEN 0
    ELSE Power(2 * OBVH_CHILD_CNT + 1, NodeHeight(StackNode(Top(stack))))
         + StackWeight(Pop(stack))

\* no node is on the stack twice
StackHoldsNodeOnce ==
    \A a, b \in 1..Len(bvh_stack) :
        a # b => StackNode(bvh_stack[a]) # StackNode(bvh_stack[b])

\* an iteration pops the top entry and pushes children of it only: the work
\* left goes down
IterationPopsOne ==
    (pc = "loop" /\ bvh_stack # <<>>) =>
        LET node == StackNode(Top(bvh_stack))
            base == Len(bvh_stack) - 1
        IN  /\ Len(bvh_stack') >= base
            /\ SubSeq(bvh_stack', 1, base) = Pop(bvh_stack)
            /\ \A a \in (base + 1)..Len(bvh_stack') :
                   \E j \in 0..(node.child_cnt - 1) :
                       StackNode(bvh_stack'[a]) = Child(node, j)
            /\ StackWeight(bvh_stack') < StackWeight(bvh_stack)

\* an iteration pushes each child at most once; a node is pushed when its
\* parent is popped only, so that it is pushed at most once in the query
IterationPushesOnce ==
    (pc = "loop" /\ bvh_stack # <<>>) =>
        LET node == StackNode(Top(bvh_stack)) IN
        \A j \in 0..(node.child_cnt - 1) : TimesPushed(node, j, Len(bvh_stack) - 1) <= 1

\* the loop is left with an empty stack, or by the early return of any-hit
LoopEnds ==
    /\ (pc = "done" /\ ~(fn = "IsOccluded" /\ ret)) => bvh_stack = <<>>
    /\ (pc = "loop" /\ bvh_stack = <<>>) => pc' = "done"

C29_TraversalTerminates ==
    /\ []StackHoldsNodeOnce
    /\ [][IterationPopsOne /\ IterationPushesOnce /\ LoopEnds]_vars

====
